---- MODULE Spec2Model ----
(***************************************************************************)
(* A model of the reconciliation engine of k8s-bigip-ctlr                  *)
(* (pkg/appmanager/appManager.go): the informer map, the namespace worker, *)
(* the virtual-server worker with its sub-syncs, the resource and profile  *)
(* stores, and the node update.                                            *)
(***************************************************************************)
EXTENDS Integers, Sequences, FiniteSets, TLC

(***************************************************************************)
(* Universes of the orchestrator objects the engine is run against.        *)
(***************************************************************************)
Namespaces == {"ns1", "ns2"}

\* the namespace argument "" stands for "all namespaces"
NsArgs == Namespaces \cup {""}

\* Bound on the number of changes the orchestrator makes to its objects.
MaxEvents == 2

(***************************************************************************)
(* Generic helpers.                                                        *)
(***************************************************************************)
Range(s) == {s[i] : i \in DOMAIN s}

\* f without the arguments in S
Drop(f, S) == [x \in (DOMAIN f) \ S |-> f[x]]

\* f with x mapped to v (x added when missing)
Put(f, x, v) == [y \in (DOMAIN f) \cup {x} |-> IF y = x THEN v ELSE f[y]]

\* the sequence s without its i-th element
RemoveAt(s, i) == SubSeq(s, 1, i - 1) \o SubSeq(s, i + 1, Len(s))

\* the element of a one-element set: The({f(x) : x \in {e}}) is f(e), with
\* e evaluated once however often f uses it
The(S) == CHOOSE r \in S : TRUE

\* a deduplicating queue: Add is a no-op while the key is pending
QueueAdd(q, k) == q \cup {k}

QueueAddAll(q, ks) == q \cup Range(ks)

(***************************************************************************)
(* The state of the Manager and of the orchestrator around it.             *)
(***************************************************************************)
VARIABLES
  appInformers,   \* Manager.appInformers: namespace -> informer bundle
  nsInformer,     \* number of namespace label informers constructed (0: nil)
  running,        \* runImpl has started the informers and the workers
  nsQueue,        \* Manager.nsQueue: pending namespace names
  vsQueue,        \* Manager.vsQueue: pending serviceQueueKeys
  resources,      \* Manager.resources: [key, name] -> ResourceConfig
  resAlias,       \* which entries of resources hold the same *ResourceConfig
  customProfiles, \* Manager.customProfiles.profs: secretKey -> CustomProfile
  irulesMap,      \* Manager.irulesMap: the names of the registered iRules
  intDgMap,       \* Manager.intDgMap: nameRef -> internal data group
  initialState,   \* Manager.initialState
  isNodePort,     \* Manager.isNodePort
  routeClientV1,  \* Manager.routeClientV1 is not nil
  oldNodes,       \* Manager.oldNodes
  cluster,        \* the orchestrator's objects (what the informers and the
                  \* kube client return)
  events,         \* number of changes made to the orchestrator's objects
  proc,           \* the goroutines of the process and the state of the work
                  \* queues, where a specification follows them step by step
  panicked,       \* a run-time panic has ended the process (HandleCrash
                  \* either re-panics or lets the worker start again)
  last            \* what the last operation did (its result and its effects)

vars == <<appInformers, nsInformer, running, nsQueue, vsQueue, resources,
          resAlias, customProfiles, irulesMap, intDgMap, initialState, isNodePort,
          routeClientV1, oldNodes, cluster, events, proc, panicked, last>>

(***************************************************************************)
(* The resource store (type Resources): a map serviceKey -> resourceName   *)
(* -> *ResourceConfig.  An entry is a record [key, name]; rm maps entries  *)
(* to configs and al is the partition of the entries by the pointer they   *)
(* hold (two entries in one class hold the same *ResourceConfig).          *)
(***************************************************************************)
ServiceKey(ns, svc, port) == [ns |-> ns, svc |-> svc, port |-> port]

Entry(key, name) == [key |-> key, name |-> name]

EmptyStore == [rm |-> <<>>, al |-> {}]

RsHas(st, key, name) == Entry(key, name) \in DOMAIN st.rm

\* the entries that hold the same pointer as entry e
ClassOf(st, e) == CHOOSE c \in st.al : e \in c

\* Resources.Delete(key, name): name "" deletes every config of the key
RsDelete(st, key, name) ==
  LET gone == {e \in DOMAIN st.rm : e.key = key /\ (name = "" \/ e.name = name)}
  IN  [rm |-> Drop(st.rm, gone),
       al |-> {c \ gone : c \in st.al} \ {{}}]

\* Resources.GetAllWithName(name): the entries stored under the name
RsAllWithName(st, name) == {e \in DOMAIN st.rm : e.name = name}

\* a write through the pointer stored at entry e: every entry of its class
\* sees the new value
RsMutate(st, e, cfg) ==
  LET c == ClassOf(st, e)
  IN  [st EXCEPT !.rm = [x \in DOMAIN st.rm |-> IF x \in c THEN cfg ELSE st.rm[x]]]

(***************************************************************************)
(* What an operation reports: its result and the effects that leave no     *)
(* trace in the stores.                                                    *)
(***************************************************************************)
NoKey == [ns |-> "", svc |-> ""]

NoStats == [vsFound |-> 0, vsUpdated |-> 0, vsDeleted |-> 0,
            cpUpdated |-> 0, dgUpdated |-> 0]

NoOp == [op |-> "init", ns |-> "", key |-> NoKey, res |-> "ok", emits |-> 0,
         branch |-> "", closed |-> {}, stats |-> NoStats,
         queuesEmpty |-> FALSE, initialBefore |-> FALSE, atEnd |-> FALSE,
         failed |-> {}, fileReads |-> 0, ingEvents |-> {}, saved |-> {},
         arg |-> <<>>, out |-> <<>>]

(***************************************************************************)
(* The config emitter.  outputConfigLocked writes one document and, having *)
(* written it, sets the initial-state flag.                                *)
(***************************************************************************)
outputConfigLocked(w) == [w EXCEPT !.emits = @ + 1, !.initialState = TRUE]

(***************************************************************************)
(* The informer map.                                                       *)
(***************************************************************************)
\* the orchestrator's objects: the namespaces that carry the label, the
\* ConfigMaps, Ingresses, Services, Endpoints and Secrets by <<namespace,
\* name>>, and the nodes
EmptyCluster ==
  [labeled |-> {}, cms |-> <<>>, ings |-> <<>>, svcs |-> <<>>, endpts |-> <<>>,
   secrets |-> <<>>, nodes |-> <<>>, routes |-> <<>>]

\* a bundle: its stop channel and whether its informers were started
newAppInformer == [stopCh |-> "open", started |-> FALSE]

watchingAllNamespacesLocked(inf) ==
  IF Cardinality(DOMAIN inf) = 0 THEN FALSE ELSE "" \in DOMAIN inf

addNamespaceLocked_NoEmptyCheck(inf, namespace) ==
  IF watchingAllNamespacesLocked(inf)
    THEN [err |-> TRUE, inf |-> inf]
  ELSE IF namespace \in DOMAIN inf
    THEN [err |-> FALSE, inf |-> inf]
    ELSE [err |-> FALSE, inf |-> Put(inf, namespace, newAppInformer)]

addNamespaceLocked(inf, namespace) ==
  IF watchingAllNamespacesLocked(inf)
    THEN [err |-> TRUE, inf |-> inf]
  ELSE IF Cardinality(DOMAIN inf) > 0 /\ namespace = ""
    THEN [err |-> TRUE, inf |-> inf]
  ELSE IF namespace \in DOMAIN inf
    THEN [err |-> FALSE, inf |-> inf]
    ELSE [err |-> FALSE, inf |-> Put(inf, namespace, newAppInformer)]

removeNamespaceLocked_Keep(inf, namespace) ==
  IF namespace \notin DOMAIN inf
    THEN [err |-> TRUE, inf |-> inf]
    ELSE [err |-> FALSE, inf |-> inf]

removeNamespaceLocked(inf, namespace) ==
  IF namespace \notin DOMAIN inf
    THEN [err |-> TRUE, inf |-> inf]
    ELSE [err |-> FALSE, inf |-> Drop(inf, {namespace})]

\* the name under which the namespace's bundle is looked up
getNamespaceInformerLocked(inf, ns) ==
  LET toFind == IF watchingAllNamespacesLocked(inf) THEN "" ELSE ns
  IN  [found |-> toFind \in DOMAIN inf, name |-> toFind]

\* whether the bundle's informers run (started and not stopped)
Live(b) == b.started /\ b.stopCh = "open"

\* whether the objects of namespace ns are in a running informer's caches
Watching(inf, ns) ==
  LET g == getNamespaceInformerLocked(inf, ns)
  IN  g.found /\ Live(inf[g.name])

(***************************************************************************)
(* Names and objects.  A string the code builds by formatting is modelled  *)
(* by the tuple of its parts.                                              *)
(***************************************************************************)
DEFAULT_PARTITION == "Common"

\* Virtual.VirtualServerName: formatConfigMapVSName / formatIngressVSName
VsName(kind, ns, obj, proto) == <<kind, ns, obj, proto>>

formatConfigMapVSName(ns, name) == VsName("configmap", ns, name, "")

formatIngressVSName(ns, name, proto) == VsName("ingress", ns, name, proto)

\* a profile reference of a virtual server: partition/name and its context
ProfileRef(part, name, ctx) == [part |-> part, name |-> name, ctx |-> ctx]

\* formatIngressSslProfileName: a name "partition/name" is split at the
\* slash, a name without a slash has no partition
formatIngressSslProfileName(part, name) == ProfileRef(part, name, "clientside")

secretKey(name, ns, rsName) == [name |-> name, ns |-> ns, rsName |-> rsName]

Member(addr, port) == [address |-> addr, port |-> port]

\* all the orders in which a map or an index may hand out the elements of S
Orderings(S) ==
  {q \in [1..Cardinality(S) -> S] : \A i, j \in 1..Cardinality(S) : q[i] = q[j] => i = j}

(***************************************************************************)
(* parseConfigMap: the ResourceConfig of a ConfigMap.  A ConfigMap is      *)
(* [ns, name, valid, partial, svc, port, bindAddr, vport, ssl, iapp,       *)
(* ipAnn].  The parser returns an error for a ConfigMap that is not valid, *)
(* together with what it had built when it failed (partial): no config,    *)
(* a config without pools, or a config with its pool.                      *)
(***************************************************************************)
None == [none |-> TRUE]

ConfigOfConfigMap(cm) ==
  [name |-> formatConfigMapVSName(cm.ns, cm.name),
   rtype |-> "configmap",
   part |-> cm.part,
   hasVA |-> TRUE,
   bindAddr |-> cm.bindAddr,
   port |-> cm.vport,
   iapp |-> cm.iapp,
   profiles |-> {ProfileRef("", n, "clientside") : n \in Range(cm.ssl)},
   irules |-> {},
   pools |-> << [name |-> <<cm.ns, cm.name>>, svc |-> cm.svc,
                 port |-> cm.port, members |-> <<>>] >>,
   policies |-> <<>>,
   monitors |-> <<>>,
   active |-> FALSE,
   nodePort |-> 0]

parseConfigMap(cm) ==
  IF cm.valid THEN [err |-> FALSE, cfg |-> ConfigOfConfigMap(cm)]
  ELSE IF cm.partial = "pools" THEN [err |-> TRUE, cfg |-> ConfigOfConfigMap(cm)]
  ELSE IF cm.partial = "nopools"
    THEN [err |-> TRUE, cfg |-> [ConfigOfConfigMap(cm) EXCEPT !.pools = <<>>]]
  ELSE [err |-> TRUE, cfg |-> None]

(***************************************************************************)
(* The world an operation runs in: the stores it writes, what it has       *)
(* emitted, the orchestrator's objects (cluster: what the kube client sees)*)
(* and the objects in the caches of the namespace's informers (cache).     *)
(* cur is the set of store entries that hold the pointer to the config     *)
(* being built (rsCfg).                                                    *)
(***************************************************************************)
World(st, profs, irules, dgs, init, cl, cache, nodes) ==
  [st |-> st, profs |-> profs, irules |-> irules, dgs |-> dgs,
   initialState |-> init, cluster |-> cl, cache |-> cache,
   oldNodes |-> nodes, emits |-> 0, cur |-> {}, enq |-> <<>>,
   ingEvents |-> {}, rsMap |-> <<>>, stats |-> NoStats, failed |-> {},
   routeClient |-> FALSE, forEach |-> <<>>, fileReads |-> 0, saved |-> {}]

\* a call to the orchestrator has failed during this run
Failed(w, tags) == [w EXCEPT !.failed = @ \cup tags]

\* Resources.Assign(key, name, rsCfg) with the pointer to the config being
\* built: the entry leaves the class it was in and joins cur
AssignCur(w, key, name, cfg) ==
  LET e == Entry(key, name)
      newCur == w.cur \cup {e}
  IN  [w EXCEPT !.st = [rm |-> Put(w.st.rm, e, cfg),
                        al |-> ({c \ newCur : c \in w.st.al} \ {{}}) \cup {newCur}],
                !.cur = newCur]

\* a write to the config being built: the entries that hold its pointer
\* change with it
WriteCur(w, cfg) ==
  [w EXCEPT !.st.rm = [x \in DOMAIN w.st.rm |-> IF x \in w.cur THEN cfg ELSE w.st.rm[x]]]

\* a new config is being built: no entry holds its pointer yet
NewCur(w) == [w EXCEPT !.cur = {}]

(***************************************************************************)
(* handleSslProfile: the custom profile of a Secret.  A Secret is a        *)
(* function from the names of its data fields to their contents.           *)
(***************************************************************************)
CustomProfile(name, part, ctx, cert, key, serverName) ==
  [name |-> name, part |-> part, ctx |-> ctx, cert |-> cert, key |-> key,
   serverName |-> serverName]

handleSslProfile_InsertUpdates(profs, rsCfg, secretName, secret, namespace) ==
  IF {"tls.crt", "tls.key"} \subseteq DOMAIN secret
    THEN LET cp == CustomProfile(secretName, rsCfg.part, "clientside",
                                 secret["tls.crt"], secret["tls.key"], "")
             skey == secretKey(secretName, namespace, rsCfg.name)
         IN  [err |-> FALSE, updated |-> skey \notin DOMAIN profs \/ profs[skey] # cp,
              profs |-> Put(profs, skey, cp)]
    ELSE [err |-> TRUE, updated |-> FALSE, profs |-> profs]

handleSslProfile(profs, rsCfg, secretName, secret, namespace) ==
  IF "tls.crt" \notin DOMAIN secret
    THEN [err |-> TRUE, updated |-> FALSE, profs |-> profs]
  ELSE IF "tls.key" \notin DOMAIN secret
    THEN [err |-> TRUE, updated |-> FALSE, profs |-> profs]
  ELSE
    LET cp == CustomProfile(secretName, rsCfg.part, "clientside",
                            secret["tls.crt"], secret["tls.key"], "")
        skey == secretKey(secretName, namespace, rsCfg.name)
    IN  IF skey \in DOMAIN profs
          THEN IF profs[skey] # cp
                 THEN [err |-> FALSE, updated |-> TRUE, profs |-> Put(profs, skey, cp)]
                 ELSE [err |-> FALSE, updated |-> FALSE, profs |-> profs]
          ELSE [err |-> FALSE, updated |-> FALSE, profs |-> Put(profs, skey, cp)]

(***************************************************************************)
(* Pool members.  A Service is [type, ports], ports a sequence of          *)
(* [port, nodePort, name]; an Endpoints object is a sequence of subsets    *)
(* [addresses, ports], ports a sequence of [name, port].                   *)
(***************************************************************************)
RECURSIVE MembersOf(_, _)
MembersOf(addrs, port) ==
  IF addrs = <<>> THEN <<>>
  ELSE <<Member(Head(addrs), port)>> \o MembersOf(Tail(addrs), port)

\* getEndpointsForNodePort: one member per cached node address
getEndpointsForNodePort(nodes, nodePort) == MembersOf(nodes, nodePort)

RECURSIVE SubsetPortMembers(_, _, _)
SubsetPortMembers(portName, ports, addrs) ==
  IF ports = <<>> THEN <<>>
  ELSE (IF portName = Head(ports).name
          THEN MembersOf(addrs, Head(ports).port) ELSE <<>>)
       \o SubsetPortMembers(portName, Tail(ports), addrs)

RECURSIVE getEndpointsForService(_, _)
getEndpointsForService(portName, eps) ==
  IF eps = <<>> THEN <<>>
  ELSE SubsetPortMembers(portName, Head(eps).ports, Head(eps).addresses)
       \o getEndpointsForService(portName, Tail(eps))

\* the loop over svc.Spec.Ports of updatePoolMembersForNodePort
RECURSIVE NodePortLoop(_, _, _, _, _)
NodePortLoop(cfg, ports, servicePort, index, nodes) ==
  IF ports = <<>> THEN cfg
  ELSE LET p == Head(ports)
           c == IF p.port = servicePort
                  THEN [cfg EXCEPT !.active = TRUE, !.nodePort = p.nodePort,
                          !.pools[index].members = getEndpointsForNodePort(nodes, p.nodePort)]
                  ELSE cfg
       IN  NodePortLoop(c, Tail(ports), servicePort, index, nodes)

updatePoolMembersForNodePort_AnyType(w, cfg, svc, svcKey, index) ==
  [ok |-> TRUE, reason |-> "",
   cfg |-> NodePortLoop(cfg, svc.ports, svcKey.port, index, w.oldNodes)]

updatePoolMembersForNodePort(w, cfg, svc, svcKey, index) ==
  IF svc.type = "NodePort"
    THEN [ok |-> TRUE, reason |-> "",
          cfg |-> NodePortLoop(cfg, svc.ports, svcKey.port, index, w.oldNodes)]
    ELSE [ok |-> FALSE, reason |-> "IncorrectBackendServiceType", cfg |-> cfg]

\* the loop over svc.Spec.Ports of updatePoolMembersForCluster
RECURSIVE ClusterLoop(_, _, _, _, _)
ClusterLoop(cfg, ports, servicePort, index, eps) ==
  IF ports = <<>> THEN cfg
  ELSE LET p == Head(ports)
           c == IF p.port = servicePort
                  THEN [cfg EXCEPT !.active = TRUE,
                          !.pools[index].members = getEndpointsForService(p.name, eps)]
                  ELSE cfg
       IN  ClusterLoop(c, Tail(ports), servicePort, index, eps)

updatePoolMembersForCluster_MissingIsEmpty(w, cfg, svc, svcKey, index) ==
  LET id == <<svcKey.ns, svcKey.svc>>
  IN  [ok |-> TRUE, reason |-> "",
       cfg |-> ClusterLoop(cfg, svc.ports, svcKey.port, index,
                           IF id \in DOMAIN w.cache.endpts THEN w.cache.endpts[id] ELSE <<>>)]

updatePoolMembersForCluster(w, cfg, svc, svcKey, index) ==
  LET id == <<svcKey.ns, svcKey.svc>>
  IN  IF id \notin DOMAIN w.cache.endpts
        THEN [ok |-> FALSE, reason |-> "EndpointsNotFound", cfg |-> cfg]
        ELSE [ok |-> TRUE, reason |-> "",
              cfg |-> ClusterLoop(cfg, svc.ports, svcKey.port, index,
                                  w.cache.endpts[id])]

(***************************************************************************)
(* deactivateVirtualServer, saveVirtualServer.  Both return the world, the *)
(* config being built and whether the store was written.                   *)
(***************************************************************************)
deactivateVirtualServer(w, cfg, sKey, rsName, index) ==
  IF RsHas(w.st, sKey, rsName)
    THEN LET c == [cfg EXCEPT !.active = FALSE, !.pools[index].members = <<>>]
         IN  The({ IF w1.st.rm[Entry(sKey, rsName)] # c
                     THEN [w |-> AssignCur(w1, sKey, rsName, c), cfg |-> c, updated |-> TRUE]
                     ELSE [w |-> w1, cfg |-> c, updated |-> FALSE]
                   : w1 \in {WriteCur(w, c)} })
    ELSE [w |-> AssignCur(w, sKey, rsName, cfg), cfg |-> cfg, updated |-> TRUE]

saveVirtualServer_NoCompare(w, cfg, sKey, rsName) ==
  [w |-> [AssignCur(w, sKey, rsName, cfg) EXCEPT !.saved = @ \cup {Entry(sKey, rsName)}],
   updated |-> TRUE]

saveVirtualServer(w, cfg, sKey, rsName) ==
  IF RsHas(w.st, sKey, rsName) /\ w.st.rm[Entry(sKey, rsName)] = cfg
    THEN [w |-> w, updated |-> FALSE]
    ELSE [w |-> [AssignCur(w, sKey, rsName, cfg) EXCEPT !.saved = @ \cup {Entry(sKey, rsName)}],
          updated |-> TRUE]

\* recordIngressEvent(nil, reason, msg, rsName): the Ingress is fetched by
\* the name taken from rsName; no event when it is gone
recordIngressEventByName(w, reason, rsName) ==
  IF <<rsName[2], rsName[3]>> \in DOMAIN w.cluster.ings
    THEN [w EXCEPT !.ingEvents = @ \cup {[reason |-> reason, ns |-> rsName[2], name |-> rsName[3]]}]
    ELSE w

\* strings.HasSuffix(rsName, "ingress")
IsIngressName(rsName) == rsName[1] = "ingress"

(***************************************************************************)
(* handleConfigForType: the common handling of a ConfigMap, an Ingress and *)
(* a Route config for the queue key sKey.                                  *)
(***************************************************************************)
\* the index of the first pool of the service, 0 when there is none
RECURSIVE FindPool(_, _, _)
FindPool(pools, svcName, i) ==
  IF i > Len(pools) THEN 0
  ELSE IF pools[i].svc = svcName THEN i
  ELSE FindPool(pools, svcName, i + 1)

ZeroPool == [name |-> <<>>, svc |-> "", port |-> 0, members |-> <<>>]

\* the loop "for j, pool := range cfg.Pools" that removes the pools of the
\* service while it ranges over them: a is the backing array, n the length
\* of the slice; the range reads the array at the original indexes
RECURSIVE RemovePoolsLoop(_, _, _, _)
RemovePoolsLoop(a, n, j, svcName) ==
  IF j > Len(a) THEN SubSeq(a, 1, n)
  ELSE IF a[j].svc = svcName /\ j <= n
    THEN LET shifted == [i \in 1..Len(a) |->
                           IF i >= j /\ i < n THEN a[i + 1]
                           ELSE IF i = n THEN ZeroPool
                           ELSE a[i]]
         IN  RemovePoolsLoop(shifted, n - 1, j + 1, svcName)
    ELSE RemovePoolsLoop(a, n, j + 1, svcName)

\* the not-found branch: the loop over GetAllWithName(rsName)
RECURSIVE RemovePoolsEverywhere(_, _, _)
RemovePoolsEverywhere(st, todo, svcName) ==
  IF todo = {} THEN st
  ELSE LET e   == CHOOSE x \in todo : TRUE
           cfg == st.rm[e]
           c   == [cfg EXCEPT !.pools = RemovePoolsLoop(cfg.pools, Len(cfg.pools), 1, svcName)]
       IN  RemovePoolsEverywhere(RsMutate(st, e, c), todo \ {e}, svcName)

\* the entry of the config in rsMap is consumed
ConsumeRsMap(rsMap, port, rsName, sKey, currRouteSvc) ==
  IF ~(currRouteSvc = "" \/ currRouteSvc = sKey.svc) \/ port \notin DOMAIN rsMap
    THEN rsMap
  ELSE IF Cardinality(rsMap[port]) = 1
    THEN Drop(rsMap, {port})
  ELSE [rsMap EXCEPT ![port] = @ \ {rsName}]

PortNotInService(w, cfg, svcKey, rsName, plIdx, svcPortMap) ==
  IF svcKey.port \notin svcPortMap
    THEN deactivateVirtualServer(w, cfg, svcKey, rsName, plIdx)
    ELSE [w |-> w, cfg |-> cfg, updated |-> FALSE]

B2N(b) == IF b THEN 1 ELSE 0

handleConfigForType(w, rsCfg, sKey, rsName, svcPortMap, svc, nodePortMode, currRouteSvc) ==
  LET plIdx == FindPool(rsCfg.pools, sKey.svc, 1)
  IN
  IF plIdx = 0
    THEN [w |-> [w EXCEPT !.st = RemovePoolsEverywhere(w.st, RsAllWithName(w.st, rsName), sKey.svc)],
          cfg |-> rsCfg, ok |-> FALSE, found |-> 0, updated |-> 0]
    ELSE
      LET pool   == rsCfg.pools[plIdx]
          svcKey == ServiceKey(sKey.ns, pool.svc, pool.port)
          w1     == [w EXCEPT !.rsMap = ConsumeRsMap(w.rsMap, pool.port, rsName, sKey, currRouteSvc)]
      IN
      The({
        IF svc = None
          THEN The({ [w |-> IF IsIngressName(rsName)
                              THEN recordIngressEventByName(d2.w, "ServiceNotFound", rsName)
                              ELSE d2.w,
                      cfg |-> d2.cfg, ok |-> FALSE, found |-> 0,
                      updated |-> B2N(d1.updated) + B2N(d2.updated)]
                     : d2 \in {deactivateVirtualServer(d1.w, d1.cfg, svcKey, rsName, plIdx)} })
          ELSE The({ The({ [w |-> IF sv.updated /\ ~u.ok /\ IsIngressName(rsName)
                                    THEN recordIngressEventByName(sv.w, u.reason, rsName)
                                    ELSE sv.w,
                            cfg |-> u.cfg, ok |-> TRUE, found |-> 1,
                            updated |-> B2N(d1.updated) + B2N(sv.updated)]
                           : sv \in {saveVirtualServer(WriteCur(d1.w, u.cfg), u.cfg,
                                                       svcKey, rsName)} })
                     : u \in {IF nodePortMode
                                THEN updatePoolMembersForNodePort(d1.w, d1.cfg, svc, svcKey, plIdx)
                                ELSE updatePoolMembersForCluster(d1.w, d1.cfg, svc, svcKey, plIdx)} })
        : d1 \in {PortNotInService(w1, rsCfg, svcKey, rsName, plIdx, svcPortMap)} })

(***************************************************************************)
(* syncConfigMaps.  fail is the set of places where the orchestrator (an   *)
(* informer index, the kube client) fails during this run.                 *)
(***************************************************************************)
AddStats(w, found, updated) ==
  [w EXCEPT !.stats.vsFound = @ + found, !.stats.vsUpdated = @ + updated]

\* the Secret as the kube client returns it, None on an error
GetSecret(w, ns, name, fail) ==
  IF "secretGet" \in fail \/ <<ns, name>> \notin DOMAIN w.cluster.secrets
    THEN None
    ELSE w.cluster.secrets[<<ns, name>>]

\* the loop over the frontend SSL profile names of a ConfigMap's virtual
RECURSIVE CmProfileLoop(_, _, _, _, _)
CmProfileLoop(w, cfg, names, ns, fail) ==
  IF names = <<>> THEN [w |-> w, cfg |-> cfg]
  ELSE
    LET profile == Head(names)
        secret  == GetSecret(w, ns, profile, fail)
    IN  IF secret = None
          THEN CmProfileLoop(Failed(w, fail \cap {"secretGet"}), cfg, Tail(names), ns, fail)
          ELSE
            The({ IF h.err
                    THEN CmProfileLoop(w, cfg, Tail(names), ns, fail)
                    ELSE CmProfileLoop(
                           [w EXCEPT !.profs = h.profs,
                                     !.stats.cpUpdated = @ + B2N(h.updated)],
                           [cfg EXCEPT !.profiles =
                              (@ \ {ProfileRef("", profile, "clientside")})
                              \cup {formatIngressSslProfileName(cfg.part, profile)}],
                           Tail(names), ns, fail)
                  : h \in {handleSslProfile(w.profs, cfg, profile, secret, ns)} })

\* checkValidConfigMap: the key a ConfigMap is queued under
CmKeys(cm) == IF cm.valid THEN <<[ns |-> cm.ns, svc |-> cm.svc]>> ELSE <<>>

\* setBindAddrAnnotation: the cached ConfigMap is changed in place and
\* updated through the kube client when its annotation differs; the update
\* (it fails for a ConfigMap that is gone) comes back as an event
setBindAddrAnnotation(w, id, cfg) ==
  LET cm == w.cache.cms[id]
      w1 == [w EXCEPT !.cache.cms[id].ipAnn = cfg.bindAddr]
  IN  IF cm.ipAnn # cfg.bindAddr
        THEN IF id \in DOMAIN w.cluster.cms
               THEN [w1 EXCEPT !.cluster.cms[id].ipAnn = cfg.bindAddr,
                               !.enq = @ \o CmKeys(cm)]
               ELSE w1
        ELSE w

SyncOneConfigMap(w, id, sKey, svcPortMap, svc, nodePortMode, fail) ==
  LET cm == w.cache.cms[id]
      p  == parseConfigMap(cm)
  IN  IF cm.ns # sKey.ns \/ p.err THEN w
      ELSE
        The({ The({ IF ~h.ok
                      THEN AddStats(h.w, 0, h.updated)
                    ELSE IF ~h.cfg.iapp /\ h.cfg.hasVA /\ h.cfg.bindAddr # ""
                      THEN setBindAddrAnnotation(AddStats(h.w, h.found, h.updated), id, h.cfg)
                      ELSE AddStats(h.w, h.found, h.updated)
                    : h \in {handleConfigForType(pl.w, pl.cfg, sKey, pl.cfg.name,
                                                 svcPortMap, svc, nodePortMode, "")} })
              : pl \in {CmProfileLoop(NewCur(w), p.cfg, cm.ssl, cm.ns, fail)} })

RECURSIVE CmLoop(_, _, _, _, _, _, _)
CmLoop(w, order, sKey, svcPortMap, svc, nodePortMode, fail) ==
  IF order = <<>> THEN w
  ELSE CmLoop(SyncOneConfigMap(w, Head(order), sKey, svcPortMap, svc, nodePortMode, fail),
              Tail(order), sKey, svcPortMap, svc, nodePortMode, fail)

syncConfigMaps(w, sKey, svcPortMap, svc, nodePortMode, order, fail) ==
  IF "cmIndex" \in fail
    THEN [err |-> TRUE, w |-> Failed(w, {"cmIndex"})]
    ELSE [err |-> FALSE,
          w |-> CmLoop(w, order, sKey, svcPortMap, svc, nodePortMode, fail)]

(***************************************************************************)
(* Ingresses.  An Ingress is [ns, name, classOk, backend, rules, tls, ann, *)
(* bindAddr, part, health, statusIP]: backend is None or [svc, port],      *)
(* rules a sequence of [svc, port] (one per path), tls a sequence of       *)
(* Secret names, ann the annotations (a function from keys to strings).    *)
(***************************************************************************)
ingressSslRedirect == "ingress.kubernetes.io/ssl-redirect"
ingressAllowHttp == "ingress.kubernetes.io/allow-http"
httpPortAnnotation == "virtual-server.f5.com/http-port"
httpsPortAnnotation == "virtual-server.f5.com/https-port"

\* strconv.ParseBool
ParseBool(val) ==
  IF val \in {"1", "t", "T", "TRUE", "true", "True"} THEN [err |-> FALSE, v |-> TRUE]
  ELSE IF val \in {"0", "f", "F", "FALSE", "false", "False"} THEN [err |-> FALSE, v |-> FALSE]
  ELSE [err |-> TRUE, v |-> FALSE]

\* strconv.ParseInt(port, 10, 32) with its error dropped: 0 on an error
ParseInt(val) ==
  CASE val = "80" -> 80
    [] val = "443" -> 443
    [] val = "8080" -> 8080
    [] val = "8443" -> 8443
    [] OTHER -> 0

getBooleanAnnotation_NoDefault(annotations, key, defaultValue) ==
  IF key \notin DOMAIN annotations THEN FALSE
  ELSE LET b == ParseBool(annotations[key])
       IN  IF b.err THEN defaultValue ELSE b.v

getBooleanAnnotation(annotations, key, defaultValue) ==
  IF key \notin DOMAIN annotations THEN defaultValue
  ELSE LET b == ParseBool(annotations[key])
       IN  IF b.err THEN defaultValue ELSE b.v

portStruct(protocol, port) == [protocol |-> protocol, port |-> port]

AnnotatedPort(ann, key, default) ==
  IF key \in DOMAIN ann THEN ParseInt(ann[key]) ELSE default

virtualPorts(ing) ==
  LET httpPort    == AnnotatedPort(ing.ann, httpPortAnnotation, 80)
      httpsPort   == AnnotatedPort(ing.ann, httpsPortAnnotation, 443)
      sslRedirect == getBooleanAnnotation(ing.ann, ingressSslRedirect, TRUE)
      allowHttp   == getBooleanAnnotation(ing.ann, ingressAllowHttp, FALSE)
      http        == portStruct("http", httpPort)
      https       == portStruct("https", httpsPort)
  IN  IF Len(ing.tls) > 0
        THEN IF sslRedirect \/ allowHttp THEN <<http, https>> ELSE <<https>>
        ELSE <<http>>

RECURSIVE IngressPools(_, _)
IngressPools(ing, backends) ==
  IF backends = <<>> THEN <<>>
  ELSE << [name |-> <<ing.ns, Head(backends).svc>>, svc |-> Head(backends).svc,
           port |-> Head(backends).port, members |-> <<>>] >>
       \o IngressPools(ing, Tail(backends))

RECURSIVE IngressRules(_, _)
IngressRules(backends, i) ==
  IF i > Len(backends) THEN <<>>
  ELSE << [name |-> <<"ingress", backends[i].svc>>, ordinal |-> i - 1,
           pool |-> backends[i].svc] >>
       \o IngressRules(backends, i + 1)

\* createRSConfigFromIngress: nil for an Ingress of another class; one pool
\* per path and a policy named after the virtual server for a
\* multi-service Ingress, one pool and no policy for spec.backend
createRSConfigFromIngress(ing, ps) ==
  IF ~ing.classOk THEN None
  ELSE
    LET name  == formatIngressVSName(ing.ns, ing.name, ps.protocol)
        multi == ing.backend = None
    IN  [name |-> name,
         rtype |-> "ingress",
         part |-> ing.part,
         hasVA |-> TRUE,
         bindAddr |-> ing.bindAddr,
         port |-> ps.port,
         iapp |-> FALSE,
         profiles |-> {},
         irules |-> {},
         pools |-> IF multi THEN IngressPools(ing, ing.rules)
                            ELSE IngressPools(ing, <<ing.backend>>),
         policies |-> IF multi
                        THEN << [name |-> name, part |-> ing.part,
                                 rules |-> IngressRules(ing.rules, 1)] >>
                        ELSE <<>>,
         monitors |-> <<>>,
         active |-> FALSE,
         nodePort |-> 0]

\* checkValidIngress: one key per distinct backend service
RECURSIVE BackendKeys(_, _)
BackendKeys(ns, backends) ==
  IF backends = <<>> THEN <<>>
  ELSE LET key  == [ns |-> ns, svc |-> Head(backends).svc]
           rest == BackendKeys(ns, Tail(backends))
       IN  IF key \in Range(rest) THEN rest ELSE <<key>> \o rest

IngKeys(ing) ==
  IF ~ing.classOk THEN <<>>
  ELSE IF ing.backend = None THEN BackendKeys(ing.ns, ing.rules)
  ELSE BackendKeys(ing.ns, <<ing.backend>>)

\* ResourceConfig.SetPolicy: the policy replaces the one of its name or is
\* appended
RECURSIVE PolicyIndex(_, _, _)
PolicyIndex(policies, policy, i) ==
  IF i > Len(policies) THEN 0
  ELSE IF policies[i].name = policy.name /\ policies[i].part = policy.part THEN i
  ELSE PolicyIndex(policies, policy, i + 1)

SetPolicy(cfg, policy) ==
  LET i == PolicyIndex(cfg.policies, policy, 1)
  IN  IF i = 0 THEN [cfg EXCEPT !.policies = Append(@, policy)]
               ELSE [cfg EXCEPT !.policies[i] = policy]

\* the name of the redirect iRule: the canonical one, or the copy of a port
httpRedirectIRuleName(httpsPort) ==
  IF httpsPort # 443 THEN <<"http_redirect_irule", httpsPort>>
                     ELSE <<"http_redirect_irule", 0>>

\* Manager.addIRule: the rule is registered under its name
addIRule(w, name) == [w EXCEPT !.irules = @ \cup {name}]

\* the loop over ing.Spec.TLS of handleIngressTls; cpUpdated is the result
\* of the last call of handleSslProfile
RECURSIVE IngressTlsLoop(_, _, _, _, _, _)
IngressTlsLoop(w, cfg, tls, ns, cpUpdated, fail) ==
  IF tls = <<>> THEN [w |-> w, cfg |-> cfg, updated |-> cpUpdated]
  ELSE
    LET secretName == Head(tls)
        secret     == GetSecret(w, ns, secretName, fail)
    IN  IF secret = None
          THEN IngressTlsLoop(Failed(w, fail \cap {"secretGet"}),
                 [cfg EXCEPT !.profiles = @ \cup {formatIngressSslProfileName("", secretName)}],
                 Tail(tls), ns, cpUpdated, fail)
          ELSE
            The({ IF h.err
                    THEN IngressTlsLoop(w, cfg, Tail(tls), ns, h.updated, fail)
                    ELSE IngressTlsLoop([w EXCEPT !.profs = h.profs],
                           [cfg EXCEPT !.profiles = @ \cup
                              {formatIngressSslProfileName(cfg.part, secretName)}],
                           Tail(tls), ns, h.updated, fail)
                  : h \in {handleSslProfile(w.profs, cfg, secretName, secret, ns)} })

handleIngressTls_AlwaysRedirect(w, rsCfg, ing, fail) ==
  IF Len(ing.tls) = 0 \/ ~rsCfg.hasVA \/ rsCfg.bindAddr = ""
    THEN [w |-> w, cfg |-> rsCfg, updated |-> FALSE]
  ELSE
    LET httpsPort == AnnotatedPort(ing.ann, httpsPortAnnotation, 443)
    IN  IF rsCfg.port = httpsPort
          THEN IngressTlsLoop(w, rsCfg, ing.tls, ing.ns, FALSE, fail)
          ELSE [w |-> IF httpsPort # 443 THEN addIRule(w, httpRedirectIRuleName(httpsPort))
                                         ELSE w,
                cfg |-> [rsCfg EXCEPT !.irules = @ \cup {httpRedirectIRuleName(httpsPort)}],
                updated |-> FALSE]

handleIngressTls(w, rsCfg, ing, fail) ==
  IF Len(ing.tls) = 0
    THEN [w |-> w, cfg |-> rsCfg, updated |-> FALSE]
  ELSE IF ~rsCfg.hasVA \/ rsCfg.bindAddr = ""
    THEN [w |-> w, cfg |-> rsCfg, updated |-> FALSE]
  ELSE
    LET httpsPort == AnnotatedPort(ing.ann, httpsPortAnnotation, 443)
    IN  IF rsCfg.port = httpsPort
          THEN IngressTlsLoop(w, rsCfg, ing.tls, ing.ns, FALSE, fail)
          ELSE
            LET sslRedirect == getBooleanAnnotation(ing.ann, ingressSslRedirect, TRUE)
                ruleName    == httpRedirectIRuleName(httpsPort)
            IN  IF sslRedirect
                  THEN [w |-> IF httpsPort # 443 THEN addIRule(w, ruleName) ELSE w,
                        cfg |-> [rsCfg EXCEPT !.irules = @ \cup {ruleName}],
                        updated |-> FALSE]
                  ELSE [w |-> w, cfg |-> rsCfg, updated |-> FALSE]

\* recordIngressEvent(ing, reason, msg, "")
recordIngressEvent(w, ing, reason) ==
  [w EXCEPT !.ingEvents = @ \cup {[reason |-> reason, ns |-> ing.ns, name |-> ing.name]}]

\* the policies of the config being built that carry the virtual's name
RECURSIVE SetNamedPolicies(_, _, _)
SetNamedPolicies(cfg, policies, name) ==
  IF policies = <<>> THEN cfg
  ELSE SetNamedPolicies(IF Head(policies).name = name
                          THEN SetPolicy(cfg, Head(policies)) ELSE cfg,
                        Tail(policies), name)

\* "make sure all policies across configs for this Ingress match each
\* other": every stored config of the name gets the policies, through its
\* pointer
RECURSIVE BroadcastPolicies(_, _, _)
BroadcastPolicies(st, todo, rsCfg) ==
  IF todo = {} THEN st
  ELSE LET e == CHOOSE x \in todo : TRUE
       IN  BroadcastPolicies(
             RsMutate(st, e, SetNamedPolicies(st.rm[e], rsCfg.policies, rsCfg.name)),
             todo \ {e}, rsCfg)

processAllMultiSvc(st, numPools, rsName) ==
  Cardinality({e.key : e \in RsAllWithName(st, rsName)}) = numPools

\* setIngressStatus: the status IP of the cached Ingress becomes the bind
\* address; the update of the status comes back as an event of the Ingress
\* when it changed the object
setIngressStatus(w, id, rsCfg, fail) ==
  LET ing == w.cache.ings[id]
      w1  == [w EXCEPT !.cache.ings[id].statusIP = <<rsCfg.bindAddr>>]
  IN  IF "statusConflict" \in fail THEN Failed(w1, {"statusConflict"})
      ELSE IF "statusError" \in fail \/ id \notin DOMAIN w.cluster.ings
        THEN recordIngressEvent(Failed(w1, {"statusError"}), ing, "StatusIPError")
      ELSE IF w.cluster.ings[id].statusIP # <<rsCfg.bindAddr>>
        THEN [w1 EXCEPT !.cluster.ings[id].statusIP = <<rsCfg.bindAddr>>,
                        !.enq = @ \o IngKeys(ing)]
        ELSE w1

\* the health monitors of the annotation (handleSingleServiceHealthMonitors,
\* handleMultiServiceHealthMonitors and SortMonitors): one monitor per pool
RECURSIVE IngressMonitors(_, _)
IngressMonitors(pools, i) ==
  IF i > Len(pools) THEN <<>>
  ELSE <<[name |-> pools[i].name, type |-> "http"]>> \o IngressMonitors(pools, i + 1)

IngressHealth(w, cfg, ing) ==
  IF ing.health = "" THEN [w |-> w, cfg |-> cfg]
  ELSE IF ing.health = "bad"
    THEN [w |-> recordIngressEvent(w, ing, "InvalidData"), cfg |-> cfg]
  ELSE [w |-> w, cfg |-> [cfg EXCEPT !.monitors = IngressMonitors(cfg.pools, 1)]]

\* one pass of the loop over virtualPorts(ing)
SyncOneIngressPort(w, id, ps, sKey, svcPortMap, svc, nodePortMode, fail) ==
  LET ing == w.cache.ings[id]
      c0  == createRSConfigFromIngress(ing, ps)
  IN  IF c0 = None THEN w
      ELSE
        The({ The({ The({
          IF ~h.ok
            THEN AddStats(h.w, 0, h.updated)
            ELSE
              LET updated == IF h.updated > 0
                                /\ ~processAllMultiSvc(h.w.st, Len(h.cfg.pools), h.cfg.name)
                               THEN h.updated - 1 ELSE h.updated
              IN  setIngressStatus(
                    IF updated > 0
                      THEN recordIngressEvent(AddStats(h.w, h.found, updated), ing,
                                              "ResourceConfigured")
                      ELSE AddStats(h.w, h.found, updated),
                    id, h.cfg, fail)
          : h \in {handleConfigForType(
                     [hm.w EXCEPT !.st = BroadcastPolicies(
                        hm.w.st, RsAllWithName(hm.w.st, hm.cfg.name), hm.cfg)],
                     hm.cfg, sKey, hm.cfg.name, svcPortMap, svc, nodePortMode, "")} })
          : hm \in {IngressHealth([t.w EXCEPT !.stats.cpUpdated = @ + B2N(t.updated)],
                                  t.cfg, ing)} })
          : t \in {handleIngressTls(NewCur(w), c0, ing, fail)} })

RECURSIVE IngressPortLoop(_, _, _, _, _, _, _, _)
IngressPortLoop(w, id, ports, sKey, svcPortMap, svc, nodePortMode, fail) ==
  IF ports = <<>> THEN w
  ELSE IngressPortLoop(
         SyncOneIngressPort(w, id, Head(ports), sKey, svcPortMap, svc, nodePortMode, fail),
         id, Tail(ports), sKey, svcPortMap, svc, nodePortMode, fail)

RECURSIVE IngLoop(_, _, _, _, _, _, _)
IngLoop(w, order, sKey, svcPortMap, svc, nodePortMode, fail) ==
  IF order = <<>> THEN w
  ELSE LET id == Head(order)
           w1 == IF w.cache.ings[id].ns # sKey.ns THEN w
                 ELSE IngressPortLoop(w, id, virtualPorts(w.cache.ings[id]), sKey,
                                      svcPortMap, svc, nodePortMode, fail)
       IN  IngLoop(w1, Tail(order), sKey, svcPortMap, svc, nodePortMode, fail)

syncIngresses_IgnoreIndexError(w, sKey, svcPortMap, svc, nodePortMode, order, fail) ==
  IF "ingIndex" \in fail
    THEN [err |-> FALSE, w |-> Failed(w, {"ingIndex"})]
    ELSE [err |-> FALSE,
          w |-> IngLoop(w, order, sKey, svcPortMap, svc, nodePortMode, fail)]

syncIngresses(w, sKey, svcPortMap, svc, nodePortMode, order, fail) ==
  IF "ingIndex" \in fail
    THEN [err |-> TRUE, w |-> Failed(w, {"ingIndex"})]
    ELSE [err |-> FALSE,
          w |-> IngLoop(w, order, sKey, svcPortMap, svc, nodePortMode, fail)]

(***************************************************************************)
(* syncVirtualServer.  A bundle has a route informer when the controller   *)
(* is deployed with a route client (routeClientV1 is not nil); without it  *)
(* syncRoutes is not called and no config of type route is stored.         *)
(***************************************************************************)
\* getResourcesForKey: port -> the names of the configs stored for the key
getResourcesForKey(st, sKey) ==
  LET mine == {e \in DOMAIN st.rm : e.key.ns = sKey.ns /\ e.key.svc = sKey.svc}
  IN  [port \in {e.key.port : e \in mine} |-> {e.name : e \in {x \in mine : x.key.port = port}}]

\* deleteUnusedResources: what is left in rsMap is deleted
deleteUnusedResources(st, sKey, rsMap) ==
  LET gone == {e \in DOMAIN st.rm :
                 /\ e.key.ns = sKey.ns /\ e.key.svc = sKey.svc
                 /\ e.key.port \in DOMAIN rsMap
                 /\ e.name \in rsMap[e.key.port]}
  IN  [st |-> [rm |-> Drop(st.rm, gone), al |-> {c \ gone : c \in st.al} \ {{}}],
       rsDeleted |-> Cardinality(gone)]

\* Virtual.ReferencesProfile
ReferencesProfile(cfg, profile) ==
  \E r \in cfg.profiles :
     r.name = profile.name /\ r.part = profile.part /\ r.ctx = profile.ctx

deleteUnusedProfiles_AnyConfig(st, profs, namespace) ==
  LET found(key) == \E e \in DOMAIN st.rm : key.ns = namespace
  IN  Drop(profs, {key \in DOMAIN profs : ~found(key)})

deleteUnusedProfiles(st, profs, namespace) ==
  LET found(key) == \E e \in DOMAIN st.rm :
                       /\ key.rsName = st.rm[e].name
                       /\ key.ns = namespace
                       /\ ReferencesProfile(st.rm[e], profs[key])
  IN  Drop(profs, {key \in DOMAIN profs : ~found(key)})

\* the ports of the Service (svcPortMap)
SvcPorts(svc) == IF svc = None THEN {} ELSE {svc.ports[i].port : i \in DOMAIN svc.ports}

\* the objects of the namespace in an index of the bundle
InNamespace(objs, ns) == {id \in DOMAIN objs : objs[id].ns = ns}

(***************************************************************************)
(* Routes.  A Route is [ns, name, created, host, to, port, tls]: created   *)
(* is its creation timestamp, to the name of its Service, port the port of *)
(* that Service, tls None or [termination, cert, key, destCA] ("" for a    *)
(* field that is not set).                                                 *)
(***************************************************************************)
sslPassthroughIRuleName == <<"openshift_passthrough_irule", 0>>

passthroughHostsDgName == "ssl_passthrough_servername_dg"

reencryptHostsDgName == "ssl_reencrypt_servername_dg"

\* Manager.addInternalDataGroup: an empty group is stored under the name
addInternalDataGroup(dgs, name) == Put(dgs, name, {})

\* the names of the Routes in their lexical order
RouteNames == <<"ra", "rb", "rc">>

NameRank(name) == CHOOSE i \in DOMAIN RouteNames : RouteNames[i] = name

\* getOrderedRoutes(namespace): the Routes of the namespace in the cache,
\* by creation timestamp and then by name
getOrderedRoutes(cache, namespace) ==
  LET ids == InNamespace(cache.routes, namespace)
      before(a, b) == \/ a.created < b.created
                      \/ (a.created = b.created /\ NameRank(a.name) < NameRank(b.name))
      q == CHOOSE o \in Orderings(ids) :
             \A i, j \in DOMAIN o : i < j => before(cache.routes[o[i]], cache.routes[o[j]])
  IN  [i \in DOMAIN q |-> cache.routes[q[i]]]

\* checkValidRoute: the key of the Route's Service
RouteKeys(route) == <<[ns |-> route.ns, svc |-> route.to]>>

\* formatRouteRuleName is "openshift_route_<namespace>_<name>": the parts
\* between the underscores
formatRouteRuleName(route) == <<"openshift", "route", route.ns, route.name>>

\* the parts joined by underscores
JoinRuleName(parts) == parts[1] \o "_" \o parts[2] \o "_" \o parts[3] \o "_" \o parts[4]

formatRoutePoolName(route) == <<"openshift", route.ns, route.to>>

\* the name a rule's action gives to its pool: "/<partition>/<pool>"
PoolPath(part, poolName) == <<part, poolName>>

\* Resources.GetByName: a config stored under the name (syncRoutes leaves
\* the same pointer under every key of the name)
GetByName(st, rsName) ==
  IF RsAllWithName(st, rsName) = {} THEN None
  ELSE st.rm[CHOOSE e \in RsAllWithName(st, rsName) : TRUE]

\* ResourceConfig.AddRuleToPolicy: the rule replaces the one of its name in
\* the policy or is appended; a missing policy is created
RECURSIVE RuleIndex(_, _, _)
RuleIndex(rules, name, i) ==
  IF i > Len(rules) THEN 0
  ELSE IF rules[i].name = name THEN i
  ELSE RuleIndex(rules, name, i + 1)

AddRuleToPolicy(cfg, policyName, rule) ==
  LET p == PolicyIndex(cfg.policies, [name |-> policyName, part |-> cfg.part], 1)
  IN  IF p = 0
        THEN [cfg EXCEPT !.policies =
                Append(@, [name |-> policyName, part |-> cfg.part, rules |-> <<rule>>])]
        ELSE LET r == RuleIndex(cfg.policies[p].rules, rule.name, 1)
             IN  IF r = 0 THEN [cfg EXCEPT !.policies[p].rules = Append(@, rule)]
                          ELSE [cfg EXCEPT !.policies[p].rules[r] = rule]

\* createRSConfigFromRoute: the shared virtual server of the protocol, a
\* copy of the stored one when there is one, with the pool of the Route
\* and, for a Route the virtual server terminates, its rule
createRSConfigFromRoute(route, st, ps) ==
  LET rsName == VsName("route", "", "", ps.protocol)
      pool   == [name |-> formatRoutePoolName(route), svc |-> route.to,
                 port |-> route.port, members |-> <<>>]
      rule   == [name |-> formatRouteRuleName(route), ordinal |-> 0,
                 pool |-> PoolPath(DEFAULT_PARTITION, pool.name)]
      old    == GetByName(st, rsName)
      base   == IF old # None
                  THEN IF \E i \in DOMAIN old.pools : old.pools[i].name = pool.name
                         THEN old
                         ELSE [old EXCEPT !.pools = Append(@, pool)]
                  ELSE [name |-> rsName, rtype |-> "route", part |-> DEFAULT_PARTITION,
                        hasVA |-> TRUE, bindAddr |-> "10.0.0.9", port |-> ps.port,
                        iapp |-> FALSE, profiles |-> {}, irules |-> {},
                        pools |-> <<pool>>, policies |-> <<>>, monitors |-> <<>>,
                        active |-> FALSE, nodePort |-> 0]
  IN  IF route.tls = None
        THEN IF ps.protocol = "http"
               THEN AddRuleToPolicy(base, "openshift_insecure_routes", rule)
               ELSE base
      ELSE IF ps.protocol = "http" THEN base
      ELSE IF route.tls.termination = "passthrough"
        THEN [base EXCEPT !.irules = @ \cup {sslPassthroughIRuleName}]
      ELSE AddRuleToPolicy(base, "openshift_secure_routes", rule)

\* updateDataGroupForPassthroughRoute, updateDataGroupForReencryptRoute:
\* the record "host -> pool" joins the group of the termination
updateDataGroupForRoute(route, dgName, part, dgMap) ==
  LET rec == [host |-> route.host, pool |-> PoolPath(part, formatRoutePoolName(route))]
  IN  IF dgName \in DOMAIN dgMap THEN [dgMap EXCEPT ![dgName] = @ \cup {rec}]
                                 ELSE Put(dgMap, dgName, {rec})

\* updateRouteDataGroups: the two groups are replaced by those just built
RECURSIVE DataGroupLoop(_, _, _)
DataGroupLoop(w, dgMap, names) ==
  IF names = <<>> THEN w
  ELSE LET name == Head(names)
           new  == IF name \in DOMAIN dgMap THEN dgMap[name] ELSE {}
           old  == IF name \in DOMAIN w.dgs THEN w.dgs[name] ELSE {}
       IN  DataGroupLoop(IF new # old
                           THEN [w EXCEPT !.dgs = Put(@, name, new), !.stats.dgUpdated = @ + 1]
                           ELSE w,
                         dgMap, Tail(names))

updateRouteDataGroups(w, dgMap) ==
  DataGroupLoop(w, dgMap, <<passthroughHostsDgName, reencryptHostsDgName>>)

\* Virtual.AddFrontendSslProfileName, Virtual.AddOrUpdateProfile
AddProfile(cfg, ref) == [cfg EXCEPT !.profiles = @ \cup {ref}]

\* setClientSslProfile: the profile of the Route's certificate, or the
\* default client profile; the config being built refers to it
setClientSslProfile(w, sKey, rsCfg, route) ==
  IF route.tls.cert # "" /\ route.tls.key # ""
    THEN LET cp == CustomProfile(route.name \o "-https-cert", rsCfg.part, "clientside",
                                 route.tls.cert, route.tls.key, route.host)
             skey == secretKey(cp.name, sKey.ns, rsCfg.name)
             w1 == IF skey \in DOMAIN w.profs /\ w.profs[skey] # cp
                     THEN [w EXCEPT !.stats.cpUpdated = @ + 1] ELSE w
             cfg == AddProfile(rsCfg, ProfileRef(cp.part, cp.name, "clientside"))
         IN  [w |-> WriteCur([w1 EXCEPT !.profs = Put(@, skey, cp)], cfg), cfg |-> cfg]
    ELSE LET cfg == AddProfile(rsCfg, ProfileRef("Common", "clientssl", "clientside"))
         IN  [w |-> WriteCur(w, cfg), cfg |-> cfg]

\* NewCustomProfile(profile, cert): a server profile holds a certificate only
NewCustomProfile(profile, cert) ==
  CustomProfile(profile.name, profile.part, profile.ctx, cert, "", "")

\* loadDefaultCert: the profile of the cluster's default certificate is
\* stored under the namespace alone; the file is read when it is missing
loadDefaultCert(w, namespace) ==
  LET profile == ProfileRef(DEFAULT_PARTITION, "openshift_route_cluster_default-server-ssl",
                            "serverside")
      skey    == secretKey(profile.name, namespace, <<>>)
  IN  IF skey \in DOMAIN w.profs
        THEN [w |-> w, profile |-> profile, added |-> FALSE]
        ELSE [w |-> [w EXCEPT !.fileReads = @ + 1,
                              !.profs = Put(@, skey, NewCustomProfile(profile, "service-ca"))],
              profile |-> profile, added |-> TRUE]

\* setServerSslProfile: the profile of the Route's destination CA, or the
\* one of the cluster's default certificate
setServerSslProfile(w, sKey, rsCfg, route) ==
  IF route.tls.destCA # ""
    THEN LET profile == ProfileRef(rsCfg.part,
                                   JoinRuleName(formatRouteRuleName(route)) \o "-server-ssl",
                                   "serverside")
             cp   == NewCustomProfile(profile, route.tls.destCA)
             skey == secretKey(cp.name, sKey.ns, rsCfg.name)
             w1 == IF skey \in DOMAIN w.profs /\ w.profs[skey] # cp
                     THEN [w EXCEPT !.stats.cpUpdated = @ + 1] ELSE w
             cfg == AddProfile(rsCfg, profile)
         IN  [w |-> WriteCur([w1 EXCEPT !.profs = Put(@, skey, cp)], cfg), cfg |-> cfg]
    ELSE The({ LET cfg == AddProfile(rsCfg, d.profile)
               IN  [w |-> WriteCur(IF d.added THEN [d.w EXCEPT !.stats.cpUpdated = @ + 1]
                                              ELSE d.w, cfg),
                    cfg |-> cfg]
               : d \in {loadDefaultCert(w, sKey.ns)} })

\* the block that stores the config under every key of its name: the
\* stored pointer never equals the config it is compared with, so every
\* entry of the partition is assigned the pointer to the config being built
RECURSIVE BroadcastRoute(_, _, _)
BroadcastRoute(w, todo, rsCfg) ==
  IF todo = {} THEN w
  ELSE LET e == CHOOSE x \in todo : TRUE
       IN  BroadcastRoute(IF w.st.rm[e].part = rsCfg.part
                            THEN AssignCur(w, e.key, rsCfg.name, rsCfg)
                            ELSE w,
                          todo \ {e}, rsCfg)

\* the TLS part of the loop body of syncRoutes
RouteTls(w, sKey, rsCfg, route) ==
  IF route.tls # None /\ rsCfg.port = 443
    THEN IF route.tls.termination = "edge"
           THEN setClientSslProfile(w, sKey, rsCfg, route).w
         ELSE IF route.tls.termination = "reencrypt"
           THEN The({ setServerSslProfile(c.w, sKey, c.cfg, route).w
                      : c \in {setClientSslProfile(w, sKey, rsCfg, route)} })
         ELSE w
    ELSE w

\* the body of the loop over the two protocols
SyncOneRoutePort(w, route, ps, sKey, svcPortMap, svc, nodePortMode) ==
  The({ The({
      IF ~h.ok THEN AddStats(h.w, 0, h.updated)
      ELSE The({ RouteTls(b, sKey, h.cfg, route)
                 : b \in {BroadcastRoute(AddStats(h.w, h.found, h.updated),
                                         RsAllWithName(h.w.st, h.cfg.name), h.cfg)} })
      : h \in {handleConfigForType(NewCur(w), c, sKey, c.name, svcPortMap, svc,
                                   nodePortMode, route.to)} })
    : c \in {createRSConfigFromRoute(route, w.st, ps)} })

RECURSIVE RouteLoop(_, _, _, _, _, _, _)
RouteLoop(w, dgMap, routes, sKey, svcPortMap, svc, nodePortMode) ==
  IF routes = <<>> THEN [w |-> w, dgMap |-> dgMap]
  ELSE
    LET route == Head(routes)
        dg1 == IF route.tls = None THEN dgMap
               ELSE IF route.tls.termination = "passthrough"
                 THEN updateDataGroupForRoute(route, passthroughHostsDgName,
                                              DEFAULT_PARTITION, dgMap)
               ELSE IF route.tls.termination = "reencrypt"
                 THEN updateDataGroupForRoute(route, reencryptHostsDgName,
                                              DEFAULT_PARTITION, dgMap)
               ELSE dgMap
    IN  IF route.ns # sKey.ns
          THEN RouteLoop(w, dg1, Tail(routes), sKey, svcPortMap, svc, nodePortMode)
          ELSE The({ The({
                 RouteLoop(w2, dg1, Tail(routes), sKey, svcPortMap, svc, nodePortMode)
                 : w2 \in {SyncOneRoutePort(w1, route,
                                            portStruct("https", 443),
                                            sKey, svcPortMap, svc, nodePortMode)} })
               : w1 \in {SyncOneRoutePort(w, route, portStruct("http", 80),
                                          sKey, svcPortMap, svc, nodePortMode)} })

syncRoutes(w, sKey, svcPortMap, svc, nodePortMode) ==
  The({ updateRouteDataGroups(r.w, r.dgMap)
        : r \in {RouteLoop(w, <<>>, getOrderedRoutes(w.cache, sKey.ns), sKey,
                           svcPortMap, svc, nodePortMode)} })

(***************************************************************************)
(* deleteUnusedRoutes.  The loops range over a slice while they remove     *)
(* elements from it: a is the backing array, n the length of the slice,    *)
(* and the range reads the array at the indexes of the original slice.     *)
(***************************************************************************)
ZeroRule == [name |-> <<>>, ordinal |-> 0, pool |-> <<>>]

\* the array with the element at i removed from the slice of length n
ShiftOut(a, n, i, zero) ==
  IF i >= n THEN a
  ELSE [j \in 1..Len(a) |-> IF j >= i /\ j < n THEN a[j + 1]
                            ELSE IF j = n THEN zero
                            ELSE a[j]]

\* the loop over the rules of a policy: the rules of the pool are removed,
\* routeName is the 4th part of the name of the last rule removed
RECURSIVE RouteRulesLoop(_, _, _, _, _, _)
RouteRulesLoop(a, n, i, poolName, routeName, set) ==
  IF i > Len(a) THEN [rules |-> SubSeq(a, 1, n), routeName |-> routeName, set |-> set]
  ELSE IF a[i].pool = poolName
    THEN RouteRulesLoop(ShiftOut(a, n, i, ZeroRule), n - 1, i + 1, poolName,
                        a[i].name[4], TRUE)
    ELSE RouteRulesLoop(a, n, i + 1, poolName, routeName, set)

\* ResourceConfig.RemovePolicy
RemovePolicy(cfg, name, part) ==
  [cfg EXCEPT !.policies = SelectSeq(@, LAMBDA p : ~(p.name = name /\ p.part = part))]

\* the loop over the policies of the config (a route config holds at most
\* one policy): a policy of one rule is removed whole
RECURSIVE RoutePoliciesLoop(_, _, _, _, _)
RoutePoliciesLoop(cfg, pols, i, poolName, routeName) ==
  IF i > Len(pols) THEN [cfg |-> cfg, routeName |-> routeName]
  ELSE IF Len(pols[i].rules) = 1
    THEN RoutePoliciesLoop(RemovePolicy(cfg, pols[i].name, pols[i].part), pols, i + 1,
                           poolName, routeName)
    ELSE The({ RoutePoliciesLoop(IF r.set THEN SetPolicy(cfg, [pols[i] EXCEPT !.rules = r.rules])
                                          ELSE cfg,
                                 pols, i + 1, poolName, r.routeName)
               : r \in {RouteRulesLoop(pols[i].rules, Len(pols[i].rules), 1, poolName,
                                       routeName, FALSE)} })

\* the loop over the pools of one config visited under the key
RECURSIVE RoutePoolsLoop(_, _, _, _, _, _, _)
RoutePoolsLoop(st, key, cfg, a, n, i, routeName) ==
  IF i > Len(a) THEN [cfg |-> [cfg EXCEPT !.pools = SubSeq(a, 1, n)], routeName |-> routeName]
  ELSE IF RsHas(st, ServiceKey(key.ns, a[i].svc, a[i].port), cfg.name)
    THEN RoutePoolsLoop(st, key, cfg, a, n, i + 1, routeName)
    ELSE The({
           RoutePoolsLoop(st, key,
                          IF p.routeName # ""
                            THEN [p.cfg EXCEPT !.profiles = @ \ {ProfileRef(cfg.part,
                                     p.routeName \o "-https-cert", "clientside")}]
                            ELSE p.cfg,
                          ShiftOut(a, n, i, ZeroPool), n - 1, i + 1, p.routeName)
           : p \in {RoutePoliciesLoop(cfg, cfg.policies, 1, PoolPath(cfg.part, a[i].name),
                                      routeName)} })

\* Resources.ForEach hands out the entries in the order of its maps: the
\* keys in the order given; the order of the names of a key makes no
\* difference (the configs of two names are different objects)
RECURSIVE RouteEntriesLoop(_, _, _)
RouteEntriesLoop(st, todo, routeName) ==
  IF todo = <<>> THEN st
  ELSE LET e == Head(todo)
       IN  IF st.rm[e].rtype # "route" THEN RouteEntriesLoop(st, Tail(todo), routeName)
           ELSE The({ RouteEntriesLoop(RsMutate(st, e, r.cfg), Tail(todo), r.routeName)
                      : r \in {RoutePoolsLoop(st, e.key, st.rm[e], st.rm[e].pools,
                                              Len(st.rm[e].pools), 1, routeName)} })

RECURSIVE EntriesInOrder(_, _)
EntriesInOrder(st, order) ==
  IF order = <<>> THEN <<>>
  ELSE LET mine == {e \in DOMAIN st.rm : e.key = Head(order)}
           names == CHOOSE q \in Orderings(mine) : TRUE
       IN  names \o EntriesInOrder(st, Tail(order))

deleteUnusedRoutes(st, order) == RouteEntriesLoop(st, EntriesInOrder(st, order), "")

\* the condition under which the run writes the config: a counter of the
\* stats, or the queues are empty before the first emission
EmitDecision_WithFound(st, qe, init) ==
  \/ st.vsFound > 0 \/ st.vsUpdated > 0 \/ st.vsDeleted > 0 \/ st.cpUpdated > 0
  \/ st.dgUpdated > 0
  \/ (qe /\ ~init)

EmitDecision(st, qe, init) ==
  \/ st.vsUpdated > 0 \/ st.vsDeleted > 0 \/ st.cpUpdated > 0 \/ st.dgUpdated > 0
  \/ (qe /\ ~init)

\* the part of syncVirtualServer after the namespace's bundle is found.
\* others: the queues hold nothing but the key being processed and the
\* keys this run has caused to be added.  early: the events of the updates
\* this run has made reach the queue before the run looks at its length.
SyncFound(w0, sKey, nodePortMode, cmOrder, ingOrder, fail, others, early) ==
  IF "svcLookup" \in fail
    THEN [res |-> "err", w |-> Failed(w0, {"svcLookup"}), atEnd |-> FALSE,
          queuesEmpty |-> FALSE]
  ELSE
    LET id   == <<sKey.ns, sKey.svc>>
        svc  == IF id \in DOMAIN w0.cache.svcs THEN w0.cache.svcs[id] ELSE None
        ports == SvcPorts(svc)
        w1   == [w0 EXCEPT !.rsMap = getResourcesForKey(w0.st, sKey)]
    IN
    The({
      IF c.err THEN [res |-> "err", w |-> c.w, atEnd |-> FALSE, queuesEmpty |-> FALSE]
      ELSE The({
        IF i.err THEN [res |-> "err", w |-> i.w, atEnd |-> FALSE, queuesEmpty |-> FALSE]
        ELSE The({ The({
          LET qe == others /\ (~early \/ Range(w2.enq) \subseteq {sKey})
          IN  [res |-> "ok",
               w |-> IF EmitDecision(w2.stats, qe, w2.initialState)
                       THEN outputConfigLocked(w2)
                       ELSE w2,
               atEnd |-> TRUE, queuesEmpty |-> qe]
          : w2 \in {[i.w EXCEPT !.st = d.st, !.stats.vsDeleted = d.rsDeleted,
                       !.profs = deleteUnusedProfiles(d.st, i.w.profs, sKey.ns)]} })
          : d \in {IF DOMAIN i.w.rsMap # {}
                     THEN The({ [st |-> deleteUnusedRoutes(du.st, i.w.forEach),
                                 rsDeleted |-> du.rsDeleted]
                                : du \in {deleteUnusedResources(i.w.st, sKey, i.w.rsMap)} })
                     ELSE [st |-> i.w.st, rsDeleted |-> 0]} })
        : i \in {The({ IF g.err \/ ~g.w.routeClient THEN g
                       ELSE [err |-> FALSE,
                             w |-> syncRoutes(g.w, sKey, ports, svc, nodePortMode)]
                       : g \in {syncIngresses(c.w, sKey, ports, svc, nodePortMode,
                                              ingOrder, fail)} })} })
      : c \in {syncConfigMaps(w1, sKey, ports, svc, nodePortMode, cmOrder, fail)} })

\* the objects in the caches of the bundle: those of the orchestrator while
\* its informers run
CacheOf(b, cl) == IF Live(b) THEN cl ELSE EmptyCluster

syncVirtualServer(w0, inf, sKey, nodePortMode, cmOrder, ingOrder, fail, others, early) ==
  LET g == getNamespaceInformerLocked(inf, sKey.ns)
  IN  IF ~g.found
        THEN [res |-> "ok", w |-> w0, atEnd |-> FALSE, queuesEmpty |-> FALSE]
        ELSE SyncFound(w0, sKey, nodePortMode, cmOrder, ingOrder, fail, others, early)

(***************************************************************************)
(* syncNamespace.                                                          *)
(***************************************************************************)
\* the keys of the objects of a namespace, as the enqueuers add them when
\* the informers of a bundle list the namespace
SvcKeysOf(ids) == {[ns |-> id[1], svc |-> id[2]] : id \in ids}

KeysOfNamespaces(cl, nss) ==
  UNION {Range(CmKeys(cl.cms[id])) : id \in {x \in DOMAIN cl.cms : x[1] \in nss}}
  \cup UNION {Range(IngKeys(cl.ings[id])) : id \in {x \in DOMAIN cl.ings : x[1] \in nss}}
  \cup UNION {Range(RouteKeys(cl.routes[id])) : id \in {x \in DOMAIN cl.routes : x[1] \in nss}}
  \cup SvcKeysOf({id \in DOMAIN cl.svcs : id[1] \in nss})
  \cup SvcKeysOf({id \in DOMAIN cl.endpts : id[1] \in nss})

\* the result of syncNamespace: res is "ok", "err" or "panic"
\* (closed: the bundles whose stop channel the run has closed; listed: the
\* namespaces whose informers it has started)
NsResult(res, branch, inf, w, listed, closed) ==
  [res |-> res, branch |-> branch, inf |-> inf, w |-> w, listed |-> listed,
   closed |-> closed]

syncNamespace(inf, w, nsName, fail) ==
  IF "nsLookup" \in fail THEN NsResult("err", "", inf, w, {}, {})
  ELSE
    LET exists == nsName \in w.cluster.labeled
        g      == getNamespaceInformerLocked(inf, nsName)
    IN  IF exists /\ g.found THEN NsResult("ok", "watched", inf, w, {}, {})
        ELSE IF exists
          THEN The({ IF a.err THEN NsResult("err", "add", inf, w, {}, {})
                     ELSE NsResult("ok", "add",
                            [a.inf EXCEPT ![nsName].started = TRUE], w, {nsName}, {})
                     : a \in {addNamespaceLocked(inf, nsName)} })
        ELSE IF ~g.found
          \* appInf is nil: appInf.stopInformers() dereferences it
          THEN NsResult("panic", "delete", inf, w, {}, {})
        ELSE IF inf[g.name].stopCh = "closed"
          \* close of a closed channel
          THEN NsResult("panic", "delete", inf, w, {}, {})
        ELSE
          LET stopped == [inf EXCEPT ![g.name].stopCh = "closed"]
              removed == removeNamespaceLocked(stopped, nsName).inf
              gone    == {e \in DOMAIN w.st.rm : e.key.ns = nsName}
              st      == [rm |-> Drop(w.st.rm, gone),
                          al |-> {c \ gone : c \in w.st.al} \ {{}}]
              w1      == [w EXCEPT !.st = st,
                                   !.stats.vsDeleted = Cardinality({e.key : e \in gone})]
          IN  NsResult("ok", "delete", removed,
                       IF gone # {} THEN outputConfigLocked(w1) ELSE w1, {}, {g.name})

(***************************************************************************)
(* ProcessNodeUpdate.  A node is [unschedulable, addrs], addrs a sequence  *)
(* of [type, address]; an address is a number.                             *)
(***************************************************************************)
RECURSIVE AddrsOfType(_, _)
AddrsOfType(addrs, addrType) ==
  IF addrs = <<>> THEN <<>>
  ELSE (IF Head(addrs).type = addrType THEN <<Head(addrs).address>> ELSE <<>>)
       \o AddrsOfType(Tail(addrs), addrType)

RECURSIVE NodeLoop(_, _)
NodeLoop(nodes, addrType) ==
  IF nodes = <<>> THEN <<>>
  ELSE (IF Head(nodes).unschedulable THEN <<>>
        ELSE AddrsOfType(Head(nodes).addrs, addrType))
       \o NodeLoop(Tail(nodes), addrType)

getNodeAddresses(nodes, useNodeInternal) ==
  NodeLoop(nodes, IF useNodeInternal THEN "InternalIP" ELSE "ExternalIP")

\* sort.Strings
RECURSIVE Insert(_, _)
Insert(x, s) ==
  IF s = <<>> THEN <<x>>
  ELSE IF x <= Head(s) THEN <<x>> \o s
  ELSE <<Head(s)>> \o Insert(x, Tail(s))

RECURSIVE Sort(_)
Sort(s) == IF s = <<>> THEN <<>> ELSE Insert(Head(s), Sort(Tail(s)))

\* the members of pool 0 of every stored config are overwritten with the
\* new node addresses, the config is emitted and the baseline replaced
NodesChanged(w, newNodes) ==
  IF \E e \in DOMAIN w.st.rm : Len(w.st.rm[e].pools) = 0
    THEN [res |-> "panic", w |-> w]
    ELSE [res |-> "ok",
          w |-> [outputConfigLocked(
                   [w EXCEPT !.st.rm = [e \in DOMAIN w.st.rm |->
                      [w.st.rm[e] EXCEPT !.pools[1].members =
                         MembersOf(newNodes, w.st.rm[e].nodePort)]]])
                 EXCEPT !.oldNodes = newNodes]]

ProcessNodeUpdate_AlwaysCompare(w, nodes, useNodeInternal, err) ==
  IF err THEN [res |-> "ok", w |-> w]
  ELSE
    LET newNodes == Sort(getNodeAddresses(nodes, useNodeInternal))
    IN  IF newNodes # w.oldNodes
          THEN NodesChanged(w, newNodes)
          ELSE [res |-> "ok", w |-> w]

\* res is "ok" or "panic" (cfg.Pools[0] of a config without pools)
ProcessNodeUpdate(w, nodes, useNodeInternal, err) ==
  IF err THEN [res |-> "ok", w |-> w]
  ELSE
    LET newNodes == Sort(getNodeAddresses(nodes, useNodeInternal))
    IN  IF w.initialState
          THEN IF newNodes # w.oldNodes
                 THEN NodesChanged(w, newNodes)
                 ELSE [res |-> "ok", w |-> w]
          ELSE [res |-> "ok", w |-> [w EXCEPT !.oldNodes = newNodes]]

(***************************************************************************)
(* The orchestrator: the objects that may exist and how they change.       *)
(***************************************************************************)
Cm1 == [ns |-> "ns1", name |-> "cm1", valid |-> TRUE, partial |-> "", svc |-> "svcA", port |-> 80,
        part |-> "k8s", bindAddr |-> "10.0.0.1", vport |-> 80, ssl |-> <<"sec1">>,
        iapp |-> FALSE, ipAnn |-> ""]

Cm2 == [ns |-> "ns2", name |-> "cm2", valid |-> TRUE, partial |-> "", svc |-> "svcA", port |-> 80,
        part |-> "k8s", bindAddr |-> "10.0.0.2", vport |-> 80, ssl |-> <<"sec2">>,
        iapp |-> FALSE, ipAnn |-> ""]

\* a multi-service Ingress with a TLS section and the default annotations
Ing1 == [ns |-> "ns1", name |-> "ing1", classOk |-> TRUE, backend |-> None,
         rules |-> <<[svc |-> "svcA", port |-> 80], [svc |-> "svcB", port |-> 80]>>,
         tls |-> <<"sec3">>, ann |-> <<>>, bindAddr |-> "10.0.0.3", part |-> "k8s",
         health |-> "", statusIP |-> <<>>]

CmTemplates == (<<"ns1", "cm1">> :> Cm1) @@ (<<"ns2", "cm2">> :> Cm2)

IngTemplates == (<<"ns1", "ing1">> :> Ing1)

\* an edge Route with a certificate, a reencrypt Route without certificates
\* and a passthrough Route in another namespace
NoCert == [termination |-> "", cert |-> "", key |-> "", destCA |-> ""]

RouteA == [ns |-> "ns1", name |-> "ra", created |-> 1, host |-> "a.example",
           to |-> "svcA", port |-> 80,
           tls |-> [termination |-> "edge", cert |-> "crtA", key |-> "keyA",
                    destCA |-> ""]]

RouteB == [ns |-> "ns1", name |-> "rb", created |-> 2, host |-> "b.example",
           to |-> "svcB", port |-> 80,
           tls |-> [NoCert EXCEPT !.termination = "reencrypt"]]

RouteC == [ns |-> "ns2", name |-> "rc", created |-> 3, host |-> "c.example",
           to |-> "svcA", port |-> 80,
           tls |-> [NoCert EXCEPT !.termination = "passthrough"]]

RouteTemplates ==
  (<<"ns1", "ra">> :> RouteA) @@ (<<"ns1", "rb">> :> RouteB) @@ (<<"ns2", "rc">> :> RouteC)

\* a Service of type NodePort; the node ports of the cluster's Services are
\* distinct
NodePortOf(id) ==
  CASE id = <<"ns1", "svcA">> -> 30080
    [] id = <<"ns1", "svcB">> -> 30081
    [] OTHER -> 30082

SvcNodePort(id) ==
  [type |-> "NodePort",
   ports |-> <<[port |-> 80, nodePort |-> NodePortOf(id), name |-> "http"]>>]

SvcIds == {<<"ns1", "svcA">>, <<"ns1", "svcB">>, <<"ns2", "svcA">>}

Endpoints1 ==
  <<[addresses |-> <<11>>, notReadyAddresses |-> <<>>,
     ports |-> <<[name |-> "http", port |-> 8080]>>]>>

Secret(n) == ("tls.crt" :> <<"crt", n>>) @@ ("tls.key" :> <<"key", n>>)

SecretIds == {<<"ns1", "sec1">>, <<"ns2", "sec2">>, <<"ns1", "sec3">>}

Node(unschedulable, internal, external) ==
  [unschedulable |-> unschedulable,
   addrs |-> <<[type |-> "InternalIP", address |-> internal],
               [type |-> "ExternalIP", address |-> external]>>]

NodeLists == {<<Node(FALSE, 1, 101)>>,
              <<Node(FALSE, 2, 102), Node(FALSE, 1, 101), Node(TRUE, 3, 103)>>}

\* the clusters the controller is started in
InitClusters ==
  {[labeled |-> {"ns1", "ns2"},
    cms     |-> CmTemplates,
    ings    |-> IngTemplates,
    svcs    |-> [id \in {<<"ns1", "svcA">>, <<"ns2", "svcA">>} |-> SvcNodePort(id)],
    endpts  |-> [id \in {<<"ns1", "svcA">>, <<"ns2", "svcA">>} |-> Endpoints1],
    secrets |-> [id \in SecretIds |-> Secret(1)],
    nodes   |-> <<Node(FALSE, 1, 101)>>,
    routes  |-> <<>>]}

\* the objects that are created and deleted while the controller runs
ChangingConfigMaps == {<<"ns1", "cm1">>}

ChangingIngresses == {<<"ns1", "ing1">>}

ChangingServices == {<<"ns1", "svcA">>, <<"ns1", "svcB">>}

ChangingNamespaces == {"ns1"}

ChangingSecrets == {<<"ns1", "sec1">>, <<"ns1", "sec3">>}

\* Params.UseNodeInternal
useNodeInternal == TRUE

(***************************************************************************)
(* The work queues (a rate-limited, deduplicating queue): queue holds the  *)
(* items to hand out, in order; dirty the items that need processing;      *)
(* processing the items handed out and not yet done; waiting the items     *)
(* AddRateLimited will add after their backoff; failures the items the     *)
(* rate limiter counts failures for.                                       *)
(***************************************************************************)
NewQueue ==
  [queue |-> <<>>, dirty |-> {}, processing |-> {}, shuttingDown |-> FALSE,
   waiting |-> {}, failures |-> {}]

\* Add: coalesced with a pending Add; an item that is being processed is
\* marked dirty and queued when it is done
QAdd(q, item) ==
  IF q.shuttingDown \/ item \in q.dirty THEN q
  ELSE IF item \in q.processing THEN [q EXCEPT !.dirty = @ \cup {item}]
  ELSE [q EXCEPT !.dirty = @ \cup {item}, !.queue = Append(@, item)]

RECURSIVE QAddAll(_, _)
QAddAll(q, items) ==
  IF items = {} THEN q
  ELSE LET item == CHOOSE x \in items : TRUE
       IN  QAddAll(QAdd(q, item), items \ {item})

\* Get, for a queue that has an item to hand out
QGet(q) ==
  [q EXCEPT !.queue = Tail(@), !.processing = @ \cup {Head(q.queue)},
            !.dirty = @ \ {Head(q.queue)}]

QDone(q, item) ==
  IF item \in q.dirty
    THEN [q EXCEPT !.processing = @ \ {item}, !.queue = Append(@, item)]
    ELSE [q EXCEPT !.processing = @ \ {item}]

QForget(q, item) == [q EXCEPT !.failures = @ \ {item}]

QAddRateLimited(q, item) ==
  IF q.shuttingDown THEN [q EXCEPT !.failures = @ \cup {item}]
  ELSE [q EXCEPT !.failures = @ \cup {item}, !.waiting = @ \cup {item}]

QShutDown(q) == [q EXCEPT !.shuttingDown = TRUE]

(***************************************************************************)
(* A worker (namespaceWorker, virtualServerWorker under wait.Until): where *)
(* it is in processNext..., whether it has taken a key, the key, the error *)
(* of its sync, whether the sync has panicked, and the calls it has made   *)
(* to its queue for the key.                                               *)
(***************************************************************************)
NewWorker ==
  [pc |-> "off", got |-> FALSE, key |-> None, err |-> FALSE, panic |-> FALSE,
   calls |-> <<>>]

\* key, quit := queue.Get()
WorkerGet(q, wk) ==
  IF q.queue # <<>>
    THEN [q |-> QGet(q),
          w |-> [pc |-> "sync", got |-> TRUE, key |-> Head(q.queue), err |-> FALSE,
                 panic |-> FALSE, calls |-> <<>>]]
    ELSE [q |-> q, w |-> [wk EXCEPT !.pc = "exited"]]

\* the calls after the sync has returned
WorkerAfter_AlwaysForget(q, wk) ==
  [q |-> QForget(q, wk.key),
   w |-> [wk EXCEPT !.pc = "done", !.calls = Append(@, "Forget")]]

WorkerAfter(q, wk) ==
  IF ~wk.err
    THEN [q |-> QForget(q, wk.key),
          w |-> [wk EXCEPT !.pc = "done", !.calls = Append(@, "Forget")]]
    ELSE [q |-> QAddRateLimited(q, wk.key),
          w |-> [wk EXCEPT !.pc = "done", !.calls = Append(@, "AddRateLimited")]]

\* defer queue.Done(key)
WorkerDone(q, wk) ==
  [q |-> QDone(q, wk.key),
   w |-> [wk EXCEPT !.pc = "get", !.calls = Append(@, "Done")]]

\* a panic in the sync: the deferred Done runs as the stack unwinds, and
\* HandleCrash in wait.Until either re-panics, which ends the process, or
\* lets wait.Until call the worker again unless the stop channel is closed
WorkerPanics(q, wk, crash, stop) ==
  [q |-> QDone(q, wk.key),
   w |-> [wk EXCEPT !.pc = IF crash THEN "crashed" ELSE IF stop THEN "exited" ELSE "get",
                    !.panic = TRUE, !.calls = Append(@, "Done")]]

\* the process before Run
NoProc ==
  [stop |-> FALSE, run |-> "off", mutex |-> "", nsSynced |-> FALSE, synced |-> {},
   q |-> [vs |-> NewQueue, ns |-> NewQueue],
   w |-> [vs |-> NewWorker, ns |-> NewWorker],
   owed |-> {}]

(***************************************************************************)
(* The state machine.                                                      *)
(***************************************************************************)
Store == [rm |-> resources, al |-> resAlias]

\* the world a handler of the Manager runs in
Now(cache) ==
  [World(Store, customProfiles, irulesMap, intDgMap, initialState, cluster, cache,
         oldNodes) EXCEPT !.routeClient = routeClientV1]

\* the handler's writes to the Manager's stores
Commit(w) ==
  /\ resources' = w.st.rm
  /\ resAlias' = w.st.al
  /\ customProfiles' = w.profs
  /\ irulesMap' = w.irules
  /\ intDgMap' = w.dgs
  /\ initialState' = w.initialState
  /\ oldNodes' = w.oldNodes

Op(op, ns, key, res) == [NoOp EXCEPT !.op = op, !.ns = ns, !.key = key, !.res = res]

\* the namespaces whose objects a running informer of the map watches
WatchedNamespaces(inf) == {ns \in Namespaces : Watching(inf, ns)}

\* vsQueue.Add of the keys an event of a watched namespace produces
Enqueue(q, inf, keys) ==
  QueueAddAll(q, SelectSeq(keys, LAMBDA k : Watching(inf, k.ns)))

\* the keys of every key the cluster may produce
AllKeys == SvcKeysOf(SvcIds)

Init ==
  /\ appInformers = <<>>
  /\ nsInformer = 0
  /\ running = FALSE
  /\ nsQueue = {}
  /\ vsQueue = {}
  /\ resources = <<>>
  /\ resAlias = {}
  /\ customProfiles = <<>>
  /\ irulesMap = {}
  /\ intDgMap = <<>>
  /\ initialState = FALSE
  /\ isNodePort \in BOOLEAN
  /\ routeClientV1 = FALSE
  /\ proc = NoProc
  /\ oldNodes = <<>>
  /\ cluster \in InitClusters
  /\ events = 0
  /\ panicked = FALSE
  /\ last = NoOp

\* AddNamespace(namespace, cfgMapSelector, resyncPeriod).  The controller
\* sets up what it watches before Run, and it watches either the namespaces
\* it is given or those the label informer selects.
AddNamespace(namespace) ==
  /\ ~running
  /\ nsInformer = 0
  /\ LET r == addNamespaceLocked(appInformers, namespace)
     IN  /\ appInformers' = r.inf
         /\ last' = Op("AddNamespace", namespace, NoKey, IF r.err THEN "err" ELSE "ok")
  /\ UNCHANGED <<nsInformer, running, nsQueue, vsQueue, resources, resAlias,
                 customProfiles, irulesMap, intDgMap, initialState, isNodePort, routeClientV1, proc,
                 oldNodes, cluster, events, panicked>>

\* the checks of AddNamespaceLabelInformer
LabelInformerAllowed_NoNilCheck(nsInf, inf) == Cardinality(DOMAIN inf) = 0

LabelInformerAllowed(nsInf, inf) == nsInf = 0 /\ Cardinality(DOMAIN inf) = 0

AddNamespaceLabelInformer ==
  /\ ~running
  /\ LET ok == LabelInformerAllowed(nsInformer, appInformers)
     IN  /\ nsInformer' = IF ok THEN nsInformer + 1 ELSE nsInformer
         /\ last' = Op("AddNamespaceLabelInformer", "", NoKey, IF ok THEN "ok" ELSE "err")
  /\ UNCHANGED <<appInformers, running, nsQueue, vsQueue, resources, resAlias,
                 customProfiles, irulesMap, intDgMap, initialState, isNodePort, routeClientV1, proc,
                 oldNodes, cluster, events, panicked>>

\* runImpl: the default iRule is registered, the label informer and the
\* bundles are started and list their objects, whose events fill the queues
Run ==
  /\ ~running
  /\ ~(Cardinality(DOMAIN appInformers) = 0 /\ nsInformer = 0)
  /\ running' = TRUE
  /\ irulesMap' = irulesMap \cup {httpRedirectIRuleName(443)}
                  \cup (IF routeClientV1 THEN {sslPassthroughIRuleName} ELSE {})
  /\ intDgMap' = IF routeClientV1
                   THEN addInternalDataGroup(
                          addInternalDataGroup(intDgMap, passthroughHostsDgName),
                          reencryptHostsDgName)
                   ELSE intDgMap
  /\ appInformers' = [n \in DOMAIN appInformers |->
                        [appInformers[n] EXCEPT !.started = TRUE]]
  /\ nsQueue' = nsQueue \cup (IF nsInformer > 0 THEN cluster.labeled ELSE {})
  /\ vsQueue' = vsQueue \cup KeysOfNamespaces(cluster, WatchedNamespaces(appInformers'))
  /\ last' = Op("Run", "", NoKey, "ok")
  /\ UNCHANGED <<nsInformer, resources, resAlias, customProfiles,
                 initialState, isNodePort, routeClientV1, proc, oldNodes, cluster, events, panicked>>

\* the changes of the orchestrator's objects: each one reaches the caches
\* of the running informers and, through the enqueuers, the queues
EnvReady == running /\ ~panicked /\ events < MaxEvents

EnvFrame ==
  /\ events' = events + 1
  /\ last' = Op("event", "", NoKey, "ok")
  /\ UNCHANGED <<appInformers, nsInformer, running, resources, resAlias,
                 customProfiles, irulesMap, intDgMap, initialState, isNodePort, routeClientV1, proc,
                 oldNodes, panicked>>

\* a ConfigMap is created or deleted
ChangeConfigMap(id) ==
  /\ EnvReady
  /\ cluster' = [cluster EXCEPT !.cms = IF id \in DOMAIN @ THEN Drop(@, {id})
                                        ELSE Put(@, id, CmTemplates[id])]
  /\ vsQueue' = Enqueue(vsQueue, appInformers, CmKeys(CmTemplates[id]))
  /\ UNCHANGED nsQueue
  /\ EnvFrame

\* an Ingress is created or deleted
ChangeIngress(id) ==
  /\ EnvReady
  /\ cluster' = [cluster EXCEPT !.ings = IF id \in DOMAIN @ THEN Drop(@, {id})
                                         ELSE Put(@, id, IngTemplates[id])]
  /\ vsQueue' = Enqueue(vsQueue, appInformers, IngKeys(IngTemplates[id]))
  /\ UNCHANGED nsQueue
  /\ EnvFrame

\* a Service is created or deleted, and its Endpoints with it
ChangeService(id) ==
  /\ EnvReady
  /\ cluster' = IF id \in DOMAIN cluster.svcs
                  THEN [cluster EXCEPT !.svcs = Drop(@, {id}), !.endpts = Drop(@, {id})]
                  ELSE [cluster EXCEPT !.svcs = Put(@, id, SvcNodePort(id)),
                                       !.endpts = Put(@, id, Endpoints1)]
  /\ vsQueue' = Enqueue(vsQueue, appInformers, <<[ns |-> id[1], svc |-> id[2]]>>)
  /\ UNCHANGED nsQueue
  /\ EnvFrame

\* a namespace gains or loses the label the label informer selects
ChangeLabel(ns) ==
  /\ EnvReady
  /\ nsInformer > 0
  /\ cluster' = [cluster EXCEPT !.labeled = IF ns \in @ THEN @ \ {ns} ELSE @ \cup {ns}]
  /\ nsQueue' = QueueAdd(nsQueue, ns)
  /\ UNCHANGED vsQueue
  /\ EnvFrame

\* the nodes of the cluster change (the node poller runs in node-port mode)
ChangeNodes(nodes) ==
  /\ EnvReady
  /\ isNodePort
  /\ nodes # cluster.nodes
  /\ cluster' = [cluster EXCEPT !.nodes = nodes]
  /\ UNCHANGED <<nsQueue, vsQueue>>
  /\ EnvFrame

\* the certificate and the key of a Secret are replaced; no informer
\* watches the Secrets
ChangeSecret(id) ==
  /\ EnvReady
  /\ cluster' = [cluster EXCEPT !.secrets[id] = Secret(2)]
  /\ cluster' # cluster
  /\ UNCHANGED <<nsQueue, vsQueue>>
  /\ EnvFrame

\* the places where the orchestrator may fail during one run of a handler;
\* a failure is one of the changes the orchestrator is allowed
FailSets == {{}, {"nsLookup"}, {"svcLookup"}, {"ingIndex"}}

MayFail(fail) == fail = {} \/ events < MaxEvents

\* processNextNamespace: the namespace worker takes a name from the queue
\* and runs syncNamespace; an error re-queues the name
processNextNamespace(nsName, fail) ==
  /\ running /\ ~panicked /\ nsInformer > 0
  /\ nsName \in nsQueue
  /\ fail \subseteq {"nsLookup"}
  /\ MayFail(fail)
  /\ \E r \in {syncNamespace(appInformers, Now(EmptyCluster), nsName, fail)} :
         /\ panicked' \in (IF r.res = "panic" THEN BOOLEAN ELSE {FALSE})
         /\ nsQueue' = IF r.res = "err" THEN nsQueue ELSE nsQueue \ {nsName}
         /\ appInformers' = r.inf
         /\ vsQueue' = vsQueue \cup KeysOfNamespaces(cluster, r.listed)
         /\ Commit(r.w)
         /\ last' = [Op("syncNamespace", nsName, NoKey, r.res) EXCEPT
                       !.branch = r.branch, !.closed = r.closed, !.emits = r.w.emits,
                       !.stats = r.w.stats, !.initialBefore = initialState]
  /\ events' = IF fail = {} THEN events ELSE events + 1
  /\ UNCHANGED <<nsInformer, running, isNodePort, routeClientV1, proc, cluster>>

\* the keys Resources.ForEach may hand to deleteUnusedRoutes in a run for
\* sKey: those that hold a route config and the one the run may add
ForEachKeys(sKey) ==
  {e.key : e \in {x \in DOMAIN resources : resources[x].rtype = "route"}}
  \cup (IF routeClientV1 THEN {ServiceKey(sKey.ns, sKey.svc, 80)} ELSE {})

\* processNextVirtualServer: the virtual-server worker takes a key from the
\* queue and runs syncVirtualServer; an error re-queues the key
processNextVirtualServer(sKey, fail) ==
  /\ running /\ ~panicked
  /\ sKey \in vsQueue
  /\ fail \subseteq {"svcLookup", "cmIndex", "ingIndex", "secretGet",
                     "statusConflict", "statusError"}
  /\ MayFail(fail)
  /\ LET g     == getNamespaceInformerLocked(appInformers, sKey.ns)
         cache == IF g.found THEN CacheOf(appInformers[g.name], cluster)
                  ELSE EmptyCluster
         live  == g.found /\ Live(appInformers[g.name])
     IN  \E cmOrder \in Orderings(InNamespace(cache.cms, sKey.ns)),
            ingOrder \in Orderings(InNamespace(cache.ings, sKey.ns)) :
            LET others == vsQueue \ {sKey} = {} /\ nsQueue = {}
            IN
            \E rtOrder \in Orderings(ForEachKeys(sKey)) :
            \E w0 \in {[Now(cache) EXCEPT !.forEach = rtOrder]} :
            \E late \in {syncVirtualServer(w0, appInformers, sKey, isNodePort,
                                           cmOrder, ingOrder, fail, others, FALSE)} :
            \E early \in (IF others /\ late.atEnd /\ late.w.enq # <<>>
                            THEN BOOLEAN ELSE {FALSE}) :
            \E r \in {IF early
                        THEN syncVirtualServer(w0, appInformers, sKey, isNodePort,
                                               cmOrder, ingOrder, fail, others, TRUE)
                        ELSE late} :
            LET rest == IF r.res = "err" THEN vsQueue ELSE vsQueue \ {sKey}
            IN  /\ vsQueue' = IF live THEN QueueAddAll(rest, r.w.enq) ELSE rest
                /\ cluster' = r.w.cluster
                /\ appInformers' = appInformers
                /\ Commit(r.w)
                /\ last' = [Op("syncVirtualServer", sKey.ns, sKey, r.res) EXCEPT
                              !.emits = r.w.emits, !.stats = r.w.stats,
                              !.queuesEmpty = r.queuesEmpty,
                              !.initialBefore = initialState, !.atEnd = r.atEnd,
                              !.failed = r.w.failed, !.fileReads = r.w.fileReads,
                              !.ingEvents = r.w.ingEvents, !.saved = r.w.saved]
  /\ events' = IF fail = {} THEN events ELSE events + 1
  /\ UNCHANGED <<nsInformer, running, nsQueue, isNodePort, routeClientV1, proc, panicked>>

\* the node poller hands the nodes (or its error) to ProcessNodeUpdate
NodeUpdate(err) ==
  /\ running /\ ~panicked /\ isNodePort
  /\ \E r \in {ProcessNodeUpdate(Now(EmptyCluster), cluster.nodes, useNodeInternal, err)} :
         /\ panicked' \in (IF r.res = "panic" THEN BOOLEAN ELSE {FALSE})
         /\ Commit(r.w)
         /\ last' = [Op("ProcessNodeUpdate", "", NoKey, r.res) EXCEPT
                       !.branch = IF err THEN "err" ELSE "nodes",
                       !.emits = r.w.emits, !.initialBefore = initialState]
  /\ UNCHANGED <<appInformers, nsInformer, running, nsQueue, vsQueue, isNodePort, routeClientV1, proc,
                 cluster, events>>

Next ==
  \/ \E namespace \in NsArgs : AddNamespace(namespace)
  \/ AddNamespaceLabelInformer
  \/ Run
  \/ \E id \in ChangingConfigMaps : ChangeConfigMap(id)
  \/ \E id \in ChangingIngresses : ChangeIngress(id)
  \/ \E id \in ChangingServices : ChangeService(id)
  \/ \E ns \in ChangingNamespaces : ChangeLabel(ns)
  \/ \E nodes \in NodeLists : ChangeNodes(nodes)
  \/ \E id \in ChangingSecrets : ChangeSecret(id)
  \/ \E nsName \in Namespaces, fail \in FailSets : processNextNamespace(nsName, fail)
  \/ \E sKey \in AllKeys, fail \in FailSets : processNextVirtualServer(sKey, fail)
  \/ \E err \in BOOLEAN : NodeUpdate(err)

Spec == Init /\ [][Next]_vars

(***************************************************************************)
(* The controller with every call to the orchestrator that a run of        *)
(* syncVirtualServer makes allowed to fail: the lookups in the informers'  *)
(* stores and indexes, the Get of a Secret and the update of an Ingress    *)
(* status (refused as a conflict or for another reason).                   *)
(***************************************************************************)
BackendFailSets ==
  {{}, {"svcLookup"}, {"cmIndex"}, {"ingIndex"}, {"secretGet"},
   {"statusConflict"}, {"statusError"}}

NextBackendErrors ==
  \/ \E namespace \in NsArgs : AddNamespace(namespace)
  \/ Run
  \/ \E sKey \in AllKeys, fail \in BackendFailSets : processNextVirtualServer(sKey, fail)

SpecBackendErrors == Init /\ [][NextBackendErrors]_vars

(***************************************************************************)
(* The controller deployed with a route client, in a cluster whose         *)
(* virtual servers come from Routes.                                       *)
(***************************************************************************)
RouteClusters ==
  {[EmptyCluster EXCEPT
      !.svcs   = [id \in SvcIds |-> SvcNodePort(id)],
      !.endpts = [id \in SvcIds |-> Endpoints1],
      !.nodes  = <<Node(FALSE, 1, 101)>>,
      !.routes = RouteTemplates]}

InitRoutes ==
  /\ appInformers = <<>>
  /\ nsInformer = 0
  /\ running = FALSE
  /\ nsQueue = {}
  /\ vsQueue = {}
  /\ resources = <<>>
  /\ resAlias = {}
  /\ customProfiles = <<>>
  /\ irulesMap = {}
  /\ intDgMap = <<>>
  /\ initialState = FALSE
  /\ isNodePort = FALSE
  /\ routeClientV1 = TRUE
  /\ proc = NoProc
  /\ oldNodes = <<>>
  /\ cluster \in RouteClusters
  /\ events = 0
  /\ panicked = FALSE
  /\ last = NoOp

\* a Route is created or deleted
ChangeRoute(id) ==
  /\ EnvReady
  /\ cluster' = [cluster EXCEPT !.routes = IF id \in DOMAIN @ THEN Drop(@, {id})
                                           ELSE Put(@, id, RouteTemplates[id])]
  /\ vsQueue' = Enqueue(vsQueue, appInformers, RouteKeys(RouteTemplates[id]))
  /\ UNCHANGED nsQueue
  /\ EnvFrame

NextRoutes ==
  \/ \E namespace \in NsArgs : AddNamespace(namespace)
  \/ Run
  \/ \E id \in DOMAIN RouteTemplates : ChangeRoute(id)
  \/ \E sKey \in AllKeys : processNextVirtualServer(sKey, {})

SpecRoutes == InitRoutes /\ [][NextRoutes]_vars

(***************************************************************************)
(* The process step by step: runImpl, the namespace worker, the            *)
(* virtual-server worker and the informers, with the work queues and the   *)
(* informers' mutex between them.  The controller watches the namespaces   *)
(* a label selects.  The steps of the environment are the close of the     *)
(* process's stop channel, the caches of started informers getting in sync *)
(* (their events reach the queues), a change of a ConfigMap and a change   *)
(* of a namespace's label.                                                 *)
(***************************************************************************)
WorkerClusters ==
  {[c EXCEPT !.ings = <<>>] : c \in InitClusters}

InitWorkers ==
  /\ appInformers = <<>>
  /\ nsInformer = 1
  /\ running = FALSE
  /\ nsQueue = {}
  /\ vsQueue = {}
  /\ resources = <<>>
  /\ resAlias = {}
  /\ customProfiles = <<>>
  /\ irulesMap = {}
  /\ intDgMap = <<>>
  /\ initialState = FALSE
  /\ isNodePort = FALSE
  /\ routeClientV1 = FALSE
  /\ proc = NoProc
  /\ oldNodes = <<>>
  /\ cluster \in WorkerClusters
  /\ events = 0
  /\ panicked = FALSE
  /\ last = NoOp

\* what the steps of the process leave alone
ManagerFrame ==
  UNCHANGED <<resources, resAlias, customProfiles, irulesMap, intDgMap, initialState,
              oldNodes>>

ProcessFrame ==
  UNCHANGED <<nsInformer, nsQueue, vsQueue, isNodePort, routeClientV1, panicked, last>>

\* the process's stop channel is closed
CloseStop ==
  /\ ~proc.stop /\ ~panicked
  /\ proc' = [proc EXCEPT !.stop = TRUE]
  /\ ManagerFrame /\ ProcessFrame
  /\ UNCHANGED <<appInformers, running, cluster, events>>

\* runImpl up to the wait in startAndSyncNamespaceInformer, which holds the
\* informers' mutex
RunStart ==
  /\ proc.run = "off" /\ proc.mutex = ""
  /\ running' = TRUE
  /\ irulesMap' = irulesMap \cup {httpRedirectIRuleName(443)}
  /\ proc' = [proc EXCEPT !.run = "nsWait", !.mutex = "run"]
  /\ ProcessFrame
  /\ UNCHANGED <<appInformers, cluster, events, resources, resAlias, customProfiles,
                 intDgMap, initialState, oldNodes>>

\* the namespace informer lists the labelled namespaces: its events add
\* them to the namespace queue
NamespaceCacheSynced ==
  /\ proc.run # "off" /\ ~panicked /\ ~proc.stop /\ ~proc.nsSynced
  /\ proc' = [proc EXCEPT !.nsSynced = TRUE,
                          !.q.ns = QAddAll(@, cluster.labeled)]
  /\ ManagerFrame /\ ProcessFrame
  /\ UNCHANGED <<appInformers, running, cluster, events>>

\* wait.Until(worker, time.Second, stopCh): the worker is not called once
\* the channel is closed
StartWorker(wk, stop) == [wk EXCEPT !.pc = IF stop THEN "exited" ELSE "get"]

\* the wait for the namespace informer ends (in sync, or stopCh closed);
\* the namespace worker is started
RunNamespaceSynced ==
  /\ proc.run = "nsWait"
  /\ proc.nsSynced \/ proc.stop
  /\ proc' = [proc EXCEPT !.run = "appLock", !.mutex = "",
                          !.w.ns = StartWorker(@, proc.stop)]
  /\ ManagerFrame /\ ProcessFrame
  /\ UNCHANGED <<appInformers, running, cluster, events>>

\* startAndSyncAppInformers takes the mutex and starts every bundle
RunStartAppInformers ==
  /\ proc.run = "appLock" /\ proc.mutex = ""
  /\ appInformers' = [n \in DOMAIN appInformers |->
                        [appInformers[n] EXCEPT !.started = TRUE]]
  /\ proc' = [proc EXCEPT !.run = "appWait", !.mutex = "run"]
  /\ ManagerFrame /\ ProcessFrame
  /\ UNCHANGED <<running, cluster, events>>

\* appInf.waitForCacheSync returns: the caches are in sync or the stop
\* channel of the bundle is closed
BundleWaitOver(inf, synced, n) == n \in synced \/ inf[n].stopCh = "closed"

\* waitForCacheSyncLocked has returned for every bundle; the virtual-server
\* worker is started and runImpl waits for the stop channel
RunAppInformersSynced ==
  /\ proc.run = "appWait"
  /\ \A n \in DOMAIN appInformers : BundleWaitOver(appInformers, proc.synced, n)
  /\ proc' = [proc EXCEPT !.run = "serving", !.mutex = "",
                          !.w.vs = StartWorker(@, proc.stop)]
  /\ ManagerFrame /\ ProcessFrame
  /\ UNCHANGED <<appInformers, running, cluster, events>>

\* <-stopCh, stopAppInformers under the mutex, and the deferred ShutDown of
\* the two queues
RunStopped ==
  /\ proc.run = "serving" /\ proc.stop /\ proc.mutex = ""
  /\ appInformers' = [n \in DOMAIN appInformers |->
                        [appInformers[n] EXCEPT !.stopCh = "closed"]]
  /\ proc' = [proc EXCEPT !.run = "done",
                          !.q.ns = QShutDown(@), !.q.vs = QShutDown(@)]
  /\ ManagerFrame /\ ProcessFrame
  /\ UNCHANGED <<running, cluster, events>>

\* the caches of a started bundle get in sync: the events of the objects
\* listed add their keys to the virtual-server queue
CacheSynced(n) ==
  /\ ~panicked
  /\ n \in DOMAIN appInformers /\ Live(appInformers[n]) /\ n \notin proc.synced
  /\ \E keys \in {KeysOfNamespaces(cluster, {n})} :
        proc' = [proc EXCEPT !.synced = @ \cup {n},
                             !.q.vs = QAddAll(@, keys),
                             !.owed = IF proc.q.vs.shuttingDown THEN @ ELSE @ \cup keys]
  /\ ManagerFrame /\ ProcessFrame
  /\ UNCHANGED <<appInformers, running, cluster, events>>

\* a ConfigMap is created or deleted: enqueueConfigMap adds its key when
\* an informer in sync watches it
WorkerChangeConfigMap(id) ==
  /\ proc.run # "off" /\ ~panicked /\ events < MaxEvents
  /\ cluster' = [cluster EXCEPT !.cms = IF id \in DOMAIN @ THEN Drop(@, {id})
                                        ELSE Put(@, id, CmTemplates[id])]
  /\ events' = events + 1
  /\ \E keys \in {IF Watching(appInformers, id[1]) /\ id[1] \in proc.synced
                    THEN Range(CmKeys(CmTemplates[id])) ELSE {}} :
        proc' = [proc EXCEPT !.q.vs = QAddAll(@, keys),
                             !.owed = IF proc.q.vs.shuttingDown THEN @ ELSE @ \cup keys]
  /\ ManagerFrame /\ ProcessFrame
  /\ UNCHANGED <<appInformers, running>>

\* a namespace gains or loses the label: the namespace informer, once in
\* sync and until the stop channel is closed, adds the name to the
\* namespace queue
WorkerChangeLabel(ns) ==
  /\ proc.run # "off" /\ ~panicked /\ events < MaxEvents
  /\ cluster' = [cluster EXCEPT !.labeled = IF ns \in @ THEN @ \ {ns} ELSE @ \cup {ns}]
  /\ events' = events + 1
  /\ proc' = IF proc.nsSynced /\ ~proc.stop THEN [proc EXCEPT !.q.ns = QAdd(@, ns)]
              ELSE proc
  /\ ManagerFrame /\ ProcessFrame
  /\ UNCHANGED <<appInformers, running>>

\* the backoff of an item added with AddRateLimited is over
BackoffOver(which, item) ==
  /\ ~panicked
  /\ item \in proc.q[which].waiting
  /\ proc' = [proc EXCEPT !.q[which] = QAdd([@ EXCEPT !.waiting = @ \ {item}], item)]
  /\ ManagerFrame /\ ProcessFrame
  /\ UNCHANGED <<appInformers, running, cluster, events>>

\* processNextNamespace, processNextVirtualServer: Get
WorkerTakes(which) ==
  /\ proc.w[which].pc = "get"
  /\ proc.q[which].queue # <<>> \/ proc.q[which].shuttingDown
  /\ \E g \in {WorkerGet(proc.q[which], proc.w[which])} :
        proc' = [proc EXCEPT !.q[which] = g.q, !.w[which] = g.w]
  /\ ManagerFrame /\ ProcessFrame
  /\ UNCHANGED <<appInformers, running, cluster, events>>

\* Forget or AddRateLimited
WorkerReports(which) ==
  /\ proc.w[which].pc = "after"
  /\ \E a \in {WorkerAfter(proc.q[which], proc.w[which])} :
        proc' = [proc EXCEPT !.q[which] = a.q, !.w[which] = a.w]
  /\ ManagerFrame /\ ProcessFrame
  /\ UNCHANGED <<appInformers, running, cluster, events>>

\* the deferred Done
WorkerIsDone(which) ==
  /\ proc.w[which].pc = "done"
  /\ \E d \in {WorkerDone(proc.q[which], proc.w[which])} :
        proc' = [proc EXCEPT !.q[which] = d.q, !.w[which] = d.w]
  /\ ManagerFrame /\ ProcessFrame
  /\ UNCHANGED <<appInformers, running, cluster, events>>

\* syncNamespace: the lookup in the namespace informer, then, under the
\* mutex, the rest; a bundle that was added is started and the call waits,
\* holding the mutex, for its caches; a bundle that was removed takes its
\* caches with it; a panic unlocks the mutex and ends the process or the
\* call of the worker
NamespaceSync(fail) ==
  /\ proc.w.ns.pc = "sync"
  /\ fail \subseteq {"nsLookup"}
  /\ MayFail(fail)
  /\ fail = {} => proc.mutex = ""
  /\ \E r \in {syncNamespace(appInformers, Now(EmptyCluster), proc.w.ns.key, fail)} :
        /\ appInformers' = r.inf
        /\ Commit(r.w)
        /\ panicked' \in (IF r.res = "panic" THEN BOOLEAN ELSE {FALSE})
        /\ \E p \in {WorkerPanics(proc.q.ns, proc.w.ns, panicked', proc.stop)} :
              proc' = IF r.res = "panic"
                        THEN [proc EXCEPT !.q.ns = p.q, !.w.ns = p.w,
                                !.w.vs.pc = IF panicked' THEN "crashed" ELSE @,
                                !.run = IF panicked' THEN "crashed" ELSE @]
                      ELSE IF r.res = "ok" /\ r.branch = "add"
                        THEN [proc EXCEPT !.w.ns.pc = "waitSync", !.mutex = "ns"]
                      ELSE [proc EXCEPT !.w.ns.pc = "after",
                                        !.w.ns.err = (r.res = "err"),
                                        !.synced = @ \ r.closed]
  /\ events' = IF fail = {} THEN events ELSE events + 1
  /\ UNCHANGED <<nsInformer, nsQueue, vsQueue, isNodePort, routeClientV1, last>>
  /\ UNCHANGED <<running, cluster, irulesMap>>

\* appInf.waitForCacheSync returns in syncNamespace
NamespaceSyncWaitOver ==
  /\ proc.w.ns.pc = "waitSync"
  /\ BundleWaitOver(appInformers, proc.synced, proc.w.ns.key)
  /\ proc' = [proc EXCEPT !.w.ns.pc = "after", !.mutex = ""]
  /\ ManagerFrame /\ ProcessFrame
  /\ UNCHANGED <<appInformers, running, cluster, events>>

\* syncVirtualServer: getNamespaceInformer takes the mutex for the lookup;
\* the run reads the objects in the caches as they are now
VirtualServerSync(fail) ==
  /\ proc.w.vs.pc = "sync"
  /\ proc.mutex = ""
  /\ fail \subseteq {"svcLookup"}
  /\ MayFail(fail)
  /\ LET sKey  == proc.w.vs.key
         g     == getNamespaceInformerLocked(appInformers, sKey.ns)
         cache == IF g.found THEN CacheOf(appInformers[g.name], cluster)
                  ELSE EmptyCluster
         others == proc.q.vs.queue = <<>> /\ proc.q.ns.queue = <<>>
     IN  \E cmOrder \in Orderings(InNamespace(cache.cms, sKey.ns)) :
         \E r \in {syncVirtualServer(Now(cache), appInformers, sKey, isNodePort,
                                     cmOrder, <<>>, fail, others, FALSE)} :
            /\ Commit(r.w)
            /\ proc' = [proc EXCEPT !.w.vs.pc = "after", !.w.vs.err = (r.res = "err"),
                                    !.owed = @ \ {sKey}]
  /\ events' = IF fail = {} THEN events ELSE events + 1
  /\ ProcessFrame
  /\ UNCHANGED <<appInformers, running, cluster>>

Queues == {"vs", "ns"}

\* the steps of runImpl, of the workers and of the queues' timers
RunSteps ==
  RunStart \/ RunNamespaceSynced \/ RunStartAppInformers \/ RunAppInformersSynced
  \/ RunStopped

NamespaceWorkerSteps ==
  \/ WorkerTakes("ns") \/ WorkerReports("ns") \/ WorkerIsDone("ns")
  \/ \E fail \in {{}, {"nsLookup"}} : NamespaceSync(fail)
  \/ NamespaceSyncWaitOver

VirtualServerWorkerSteps ==
  \/ WorkerTakes("vs") \/ WorkerReports("vs") \/ WorkerIsDone("vs")
  \/ \E fail \in {{}, {"svcLookup"}} : VirtualServerSync(fail)

TimerSteps ==
  \/ \E item \in AllKeys : BackoffOver("vs", item)
  \/ \E item \in Namespaces : BackoffOver("ns", item)

\* the informers of the orchestrator's objects answer
CacheSteps ==
  NamespaceCacheSynced \/ \E n \in Namespaces : CacheSynced(n)

NextWorkers ==
  \/ CloseStop
  \/ RunStart
  \/ NamespaceCacheSynced
  \/ RunNamespaceSynced
  \/ RunStartAppInformers
  \/ RunAppInformersSynced
  \/ RunStopped
  \/ \E n \in Namespaces : CacheSynced(n)
  \/ \E id \in ChangingConfigMaps : WorkerChangeConfigMap(id)
  \/ \E ns \in ChangingNamespaces : WorkerChangeLabel(ns)
  \/ \E item \in AllKeys : BackoffOver("vs", item)
  \/ \E item \in Namespaces : BackoffOver("ns", item)
  \/ \E which \in Queues : WorkerTakes(which)
  \/ \E which \in Queues : WorkerReports(which)
  \/ \E which \in Queues : WorkerIsDone(which)
  \/ \E fail \in {{}, {"nsLookup"}} : NamespaceSync(fail)
  \/ NamespaceSyncWaitOver
  \/ \E fail \in {{}, {"svcLookup"}} : VirtualServerSync(fail)

SpecWorkers == InitWorkers /\ [][NextWorkers]_vars

\* the scheduler runs every goroutine that can take a step, and a timer
\* that has expired fires
ControllerFairness ==
  /\ WF_vars(RunSteps)
  /\ WF_vars(NamespaceWorkerSteps)
  /\ WF_vars(VirtualServerWorkerSteps)
  /\ WF_vars(TimerSteps)

\* the process with a fair scheduler; the informers may never answer
SpecWorkersFair == SpecWorkers /\ ControllerFairness

\* the process with a fair scheduler and informers that answer
SpecWorkersLive == SpecWorkers /\ ControllerFairness /\ WF_vars(CacheSteps)

(***************************************************************************)
(* The properties.                                                         *)
(***************************************************************************)
\* the informer map holds the all-namespaces entry and a specific namespace
MixedWatch(inf) == "" \in DOMAIN inf /\ DOMAIN inf \ {""} # {}

\* C1: the informer map never holds the all-namespaces entry "" together
\* with a specific namespace; AddNamespace("") while a specific namespace is
\* watched, and AddNamespace of a specific namespace while "" is watched,
\* return an error and leave the informer map as it was.
C1_AddNamespaceExclusive ==
  /\ [](~MixedWatch(appInformers))
  /\ [][(last'.op = "AddNamespace"
         /\ \/ (last'.ns = "" /\ DOMAIN appInformers \ {""} # {})
            \/ (last'.ns # "" /\ "" \in DOMAIN appInformers))
        => (last'.res = "err" /\ appInformers' = appInformers)]_vars

\* AddNamespace("") has been refused because a specific namespace is watched
C1_Witness ==
  /\ last.op = "AddNamespace" /\ last.ns = "" /\ last.res = "err"
  /\ DOMAIN appInformers \ {""} # {}

\* C2: AddNamespaceLabelInformer returns an error and installs nothing when
\* an explicit namespace informer exists or a label informer is installed;
\* otherwise it installs the label informer; at most one is ever installed.
C2_LabelInformerOnce ==
  /\ [](nsInformer <= 1)
  /\ [][last'.op = "AddNamespaceLabelInformer"
        => IF Cardinality(DOMAIN appInformers) > 0 \/ nsInformer > 0
             THEN last'.res = "err" /\ nsInformer' = nsInformer
             ELSE last'.res = "ok" /\ nsInformer' = 1]_vars

\* the label informer has been refused because one is installed
C2_Witness ==
  /\ last.op = "AddNamespaceLabelInformer" /\ last.res = "err"
  /\ nsInformer = 1

\* C3: after a run of syncNamespace that returned no error, a second run on
\* the same name with the same view of the namespaces returns no error,
\* does not crash, changes neither the informer map nor the resource store
\* and emits no config.
C3_SyncNamespaceIdempotent ==
  (last.op = "syncNamespace" /\ last.res = "ok")
  => \A r \in {syncNamespace(appInformers, Now(EmptyCluster), last.ns, {})} :
       /\ r.res = "ok"
       /\ r.inf = appInformers
       /\ r.w.st = Store
       /\ r.w.emits = 0

\* the entries of the store whose key is of the namespace
EntriesOf(rm, ns) == {e \in DOMAIN rm : e.key.ns = ns}

Completed == last.op = "syncVirtualServer" /\ last.res = "ok" /\ last.atEnd

\* C5 as stated: at the end of a run of syncVirtualServer that returns no
\* error the config is emitted exactly when one of the five counters
\* (vsFound included) is non-zero or both queues are empty and the
\* initial-state flag is false.
C5_EmitOnAnyCounter ==
  Completed
  => (last.emits = 1) =
       (\/ last.stats.vsFound > 0 \/ last.stats.vsUpdated > 0
        \/ last.stats.vsDeleted > 0 \/ last.stats.cpUpdated > 0
        \/ last.stats.dgUpdated > 0
        \/ (last.queuesEmpty /\ ~last.initialBefore))

\* C5: at the end of a run of syncVirtualServer that returns no error the
\* config is emitted once when vsUpdated, vsDeleted, cpUpdated or dgUpdated
\* is non-zero or both queues are empty and the initial-state flag is
\* false, and not at all otherwise; vsFound has no part in it.
C5_EmitOnChange ==
  Completed
  => /\ last.emits \in {0, 1}
     /\ (last.emits = 1) =
          (\/ last.stats.vsUpdated > 0 \/ last.stats.vsDeleted > 0
           \/ last.stats.cpUpdated > 0 \/ last.stats.dgUpdated > 0
           \/ (last.queuesEmpty /\ ~last.initialBefore))

\* a run has found a config, counted no update and no deletion, and
\* emitted nothing
C5_Witness ==
  /\ Completed
  /\ last.stats.vsFound > 0
  /\ last.stats.vsUpdated = 0 /\ last.stats.vsDeleted = 0
  /\ last.stats.cpUpdated = 0 /\ last.stats.dgUpdated = 0
  /\ last.emits = 0

\* the caches of the bundle in which the namespace is looked up
CacheFor(ns) ==
  LET g == getNamespaceInformerLocked(appInformers, ns)
  IN  IF g.found THEN CacheOf(appInformers[g.name], cluster) ELSE EmptyCluster

\* one more run of syncVirtualServer on the key in the present state, no
\* call of the orchestrator failing
Rerun(sKey, cmOrder, ingOrder) ==
  syncVirtualServer(Now(CacheFor(sKey.ns)), appInformers, sKey, isNodePort,
                    cmOrder, ingOrder, {},
                    vsQueue \ {sKey} = {} /\ nsQueue = {}, FALSE)

\* no Secret has been changed (no informer watches the Secrets: a change of
\* a Secret reaches no cache and no queue)
SecretsUnchanged == \A id \in DOMAIN cluster.secrets : cluster.secrets[id] = Secret(1)

\* the caches are up to date, both queues are empty and the config has been
\* emitted
Quiescent ==
  /\ running /\ ~panicked /\ vsQueue = {} /\ nsQueue = {} /\ initialState
  /\ SecretsUnchanged

\* C6: once the caches are quiescent, both queues are empty and the initial
\* emission has happened, one more run of syncVirtualServer on any key
\* changes neither the resources nor the profiles nor the data groups and
\* emits no config.
C6_Convergence ==
  Quiescent
  => \A sKey \in AllKeys :
       \A cmOrder \in Orderings(InNamespace(CacheFor(sKey.ns).cms, sKey.ns)),
          ingOrder \in Orderings(InNamespace(CacheFor(sKey.ns).ings, sKey.ns)) :
         \A r \in {Rerun(sKey, cmOrder, ingOrder)} :
           /\ r.w.st = Store
           /\ r.w.profs = customProfiles
           /\ r.w.dgs = intDgMap
           /\ r.w.emits = 0

\* the object (ConfigMap or Ingress) a resource name was formatted from
SourceId(rsName) == <<rsName[2], rsName[3]>>

SourceExists(rsName) ==
  IF rsName[1] = "configmap" THEN SourceId(rsName) \in DOMAIN cluster.cms
                             ELSE SourceId(rsName) \in DOMAIN cluster.ings

\* the queue keys of the object: one per backend service
SourceKeys(rsName) ==
  IF rsName[1] = "configmap" THEN Range(CmKeys(CmTemplates[SourceId(rsName)]))
                             ELSE Range(IngKeys(IngTemplates[SourceId(rsName)]))

\* C7: a second run of syncVirtualServer on the same key and the same
\* objects leaves the stored config of every object that exists as the
\* first run has stored it, and
\* saveVirtualServer of a config equal to the stored one returns false and
\* leaves the store as it was.
C7_Idempotence ==
  /\ Completed
     => \A cmOrder \in Orderings(InNamespace(CacheFor(last.ns).cms, last.ns)),
           ingOrder \in Orderings(InNamespace(CacheFor(last.ns).ings, last.ns)) :
          \A r \in {Rerun(last.key, cmOrder, ingOrder)} :
            \A e \in DOMAIN resources :
              SourceExists(resources[e].name)
              => e \in DOMAIN r.w.st.rm /\ r.w.st.rm[e] = resources[e]
  /\ \A e \in DOMAIN resources :
       \A sv \in {saveVirtualServer(Now(EmptyCluster), resources[e], e.key, e.name)} :
         ~sv.updated /\ sv.w.st = Store

\* a run has stored configs and counted them as updated
C7_Witness ==
  Completed /\ last.stats.vsUpdated > 0 /\ resources # <<>>

\* the config without the members of its pools
SansMembers(cfg) ==
  [cfg EXCEPT !.pools = [i \in DOMAIN cfg.pools |-> [cfg.pools[i] EXCEPT !.members = <<>>]]]

\* C8: after every completed run of syncVirtualServer the configs stored
\* under one resource name and different service keys are equal in
\* everything but the members of their pools.
C8_Uniqueness ==
  Completed
  => \A e1, e2 \in DOMAIN resources :
       e1.name = e2.name => SansMembers(resources[e1]) = SansMembers(resources[e2])

\* C9: in every state of the store a config that is not active has no
\* member in any of its pools.
C9_InactiveNoMembers ==
  \A e \in DOMAIN resources :
    ~resources[e].active
    => \A i \in DOMAIN resources[e].pools : resources[e].pools[i].members = <<>>

C11_ProfileFrame ==
  [][(last'.op = "syncVirtualServer" /\ last'.res = "ok" /\ last'.atEnd)
     => \A k \in DOMAIN customProfiles :
           (\/ k.ns # last'.key.ns
            \/ \E e \in DOMAIN resources' :
                  /\ e.key.ns = k.ns
                  /\ ReferencesProfile(resources'[e], customProfiles[k]))
           => k \in DOMAIN customProfiles']_vars

\* the node list ProcessNodeUpdate was handed, as the sorted list of the
\* addresses it keeps
NodesGiven == Sort(getNodeAddresses(cluster.nodes, useNodeInternal))

\* ProcessNodeUpdate has been handed a node list and has returned
NodeUpdateDone ==
  last.op = "ProcessNodeUpdate" /\ last.res = "ok" /\ last.branch = "nodes"

\* C15: after a call of ProcessNodeUpdate(N) that returns without error,
\* every stored config with MetaData.nodePort > 0 has as the members of its
\* pool 0 exactly the addresses of the schedulable nodes of N of the
\* configured type, each with the config's nodePort.
C15_NodeUpdateMembers ==
  NodeUpdateDone
  => \A e \in DOMAIN resources :
       resources[e].nodePort > 0
       => Range(resources[e].pools[1].members)
            = Range(MembersOf(NodesGiven, resources[e].nodePort))

\* a step in which ProcessNodeUpdate is handed a node list and returns
NodeUpdateStep ==
  last'.op = "ProcessNodeUpdate" /\ last'.res = "ok" /\ last'.branch = "nodes"

\* the step records the node list as the baseline and does nothing else
RecordsBaseline ==
  /\ oldNodes' = NodesGiven
  /\ last'.emits = 0
  /\ UNCHANGED <<resources, resAlias, initialState>>

\* the step overwrites the members, emits the config and replaces the
\* baseline
EmitsAndReplaces ==
  /\ oldNodes' = NodesGiven
  /\ last'.emits = 1

\* the step changes nothing
ChangesNothing ==
  /\ last'.emits = 0
  /\ UNCHANGED <<oldNodes, resources, resAlias, initialState>>

LookupFailures == {"svcLookup", "cmIndex", "ingIndex"}

\* C18 as stated: a run of syncVirtualServer during which a call to the
\* orchestrator failed (a Secret lookup, an Ingress status update or an
\* informer lookup) returns an error and its key stays queued.
C18_BackendErrorRequeues ==
  (last.op = "syncVirtualServer" /\ last.failed # {})
  => (last.res = "err" /\ last.key \in vsQueue)

\* C18: a run of syncVirtualServer returns an error, and its key stays
\* queued, exactly when a lookup in an informer's store or index failed; a
\* failed Secret lookup and a failed Ingress status update are passed over
\* and the run goes on.
C18_LookupErrorRequeues ==
  last.op = "syncVirtualServer"
  => /\ (last.res = "err") <=> (last.failed \cap LookupFailures # {})
     /\ (last.res = "err") => (last.key \in vsQueue)
     /\ (last.failed # {} /\ last.failed \cap LookupFailures = {})
          => (last.res = "ok" /\ last.atEnd)

\* a run during which the lookup in the Ingress index failed has returned
\* an error and left its key in the queue
C18_Witness ==
  /\ last.op = "syncVirtualServer"
  /\ last.failed = {"ingIndex"}
  /\ last.res = "err"
  /\ last.key \in vsQueue

(***************************************************************************)
(* Routes: the data groups, the pools of the shared virtual servers and    *)
(* the profile of the default certificate.                                 *)
(***************************************************************************)
\* the hostnames of the Routes of a termination in the watched namespaces
LiveHosts(termination) ==
  {cluster.routes[id].host :
     id \in {x \in DOMAIN cluster.routes :
               /\ Watching(appInformers, x[1])
               /\ cluster.routes[x].tls # None
               /\ cluster.routes[x].tls.termination = termination}}

\* the hostnames in a data group
GroupHosts(name) ==
  IF name \in DOMAIN intDgMap THEN {r.host : r \in intDgMap[name]} ELSE {}

\* C12: after every completed run of syncRoutes the passthrough and the
\* reencrypt data group hold exactly the hostnames of the cached Routes of
\* that termination in all the watched namespaces, not only in the
\* namespace of the key that was synced
C12_DataGroupsAllNamespaces ==
  (last.op = "syncVirtualServer" /\ last.res = "ok" /\ last.atEnd)
  => /\ GroupHosts(passthroughHostsDgName) = LiveHosts("passthrough")
     /\ GroupHosts(reencryptHostsDgName) = LiveHosts("reencrypt")

\* the serviceKey of a pool of a route config: the namespace of its Route,
\* its Service and the port of the Service
PoolKey(pool) == ServiceKey(pool.name[2], pool.svc, pool.port)

\* the rules of a config with the pool each one sends to
RulePools(cfg) ==
  {rp \in [rule : UNION {Range(cfg.policies[i].rules) : i \in DOMAIN cfg.policies},
           pool : Range(cfg.pools)] :
     rp.rule.pool = PoolPath(cfg.part, rp.pool.name)}

RuleNames(cfg) ==
  {r.name : r \in UNION {Range(cfg.policies[i].rules) : i \in DOMAIN cfg.policies}}

\* C13: a run of syncVirtualServer (its deleteUnusedRoutes) leaves in place
\* every pool, and every rule, of a route config whose serviceKey is still
\* stored under the name of the config
C13_StoredPoolsKept ==
  [][(last'.op = "syncVirtualServer" /\ last'.res = "ok" /\ last'.atEnd)
     => \A e \in DOMAIN resources \cap DOMAIN resources' :
          resources[e].rtype = "route"
          => /\ \A p \in Range(resources[e].pools) :
                   Entry(PoolKey(p), e.name) \in DOMAIN resources'
                   => \E q \in Range(resources'[e].pools) : q.name = p.name
             /\ \A rp \in RulePools(resources[e]) :
                   Entry(PoolKey(rp.pool), e.name) \in DOMAIN resources'
                   => rp.rule.name \in RuleNames(resources'[e])]_vars

\* a completed run of syncVirtualServer
SyncCompleted(l) == l.op = "syncVirtualServer" /\ l.res = "ok" /\ l.atEnd

\* C14: the profile of the cluster's default certificate is registered once
\* per namespace: when a run for a namespace has read the default CA file,
\* the next run for that namespace does not read it again and does not
\* count an updated profile
C14_DefaultCertOnce ==
  [][(/\ SyncCompleted(last) /\ last.fileReads > 0
      /\ SyncCompleted(last') /\ last'.key.ns = last.key.ns)
     => (last'.fileReads = 0 /\ last'.stats.cpUpdated = 0)]_vars

(***************************************************************************)
(* The workers, the queues and the stop of the process.                    *)
(***************************************************************************)
\* how often the worker has called the queue operation for its key
CallsOf(wk, name) == Cardinality({i \in DOMAIN wk.calls : wk.calls[i] = name})

\* the worker has finished with the key it took and its sync has returned
Finished(wk) == wk.got /\ ~wk.panic /\ wk.pc \in {"get", "exited"}

\* C17: for every key a worker takes from its queue it calls Done exactly
\* once; after a sync that returned an error it has called AddRateLimited
\* and not Forget, after a sync that succeeded Forget and not AddRateLimited
C17_WorkerCalls ==
  \A which \in Queues :
    LET wk == proc.w[which]
    IN  /\ CallsOf(wk, "Done") <= 1
        /\ wk.pc \in {"sync", "waitSync", "after"} => wk.calls = <<>>
        /\ wk.pc = "done"
           => /\ CallsOf(wk, "Done") = 0
              /\ CallsOf(wk, "AddRateLimited") = (IF wk.err THEN 1 ELSE 0)
              /\ CallsOf(wk, "Forget") = (IF wk.err THEN 0 ELSE 1)
        /\ (wk.got /\ wk.panic) => wk.calls = <<"Done">>
        /\ Finished(wk)
           => /\ CallsOf(wk, "Done") = 1
              /\ CallsOf(wk, "AddRateLimited") = (IF wk.err THEN 1 ELSE 0)
              /\ CallsOf(wk, "Forget") = (IF wk.err THEN 0 ELSE 1)

\* the virtual-server worker has finished with a key whose sync failed and
\* the namespace worker with one whose sync succeeded
C17_Witness ==
  /\ Finished(proc.w.vs) /\ proc.w.vs.err
  /\ Finished(proc.w.ns) /\ ~proc.w.ns.err


Terminated ==
  /\ proc.run = "done"
  /\ \A n \in DOMAIN appInformers : appInformers[n].stopCh = "closed"
  /\ \A which \in Queues :
       /\ proc.q[which].shuttingDown
       /\ proc.q[which].processing = {}
       /\ proc.w[which].pc = "exited"

\* C20: once the process's stop channel is closed, runImpl eventually
\* closes the stop channel of every bundle and shuts both queues down, a
\* sync in flight completes and both workers get quit from Get and exit,
\* also when a namespace sync is waiting for a cache sync at that moment
C20_CancellationTerminates ==
  proc.stop ~> Terminated

(***************************************************************************)
(* The controller in a cluster whose backends change: the Service of svcA  *)
(* changes its type and its port, its Endpoints object changes or goes     *)
(* away, and the nodes change.                                             *)
(***************************************************************************)
SvcOf(type, port, id) ==
  [type |-> type,
   ports |-> <<[port |-> port, nodePort |-> IF type = "NodePort" THEN NodePortOf(id) ELSE 0,
                name |-> "http"]>>]

BackendServices(id) ==
  {SvcOf(type, port, id) : type \in {"NodePort", "ClusterIP"}, port \in {80, 8080}}

\* two subsets: the first with two ready addresses, one that is not ready
\* and a port of another name, the second with a port of the Service's name
Endpoints2 ==
  <<[addresses |-> <<11, 12>>, notReadyAddresses |-> <<14>>,
     ports |-> <<[name |-> "http", port |-> 8080], [name |-> "metrics", port |-> 9090]>>],
    [addresses |-> <<13>>, notReadyAddresses |-> <<>>,
     ports |-> <<[name |-> "http", port |-> 8081]>>]>>

BackendEndpoints == {Endpoints1, Endpoints2}

ChangingBackends == {<<"ns1", "svcA">>}

\* the Service is replaced and its Endpoints object is replaced or deleted
ChangeBackend(id, svc, eps) ==
  /\ EnvReady
  /\ cluster' = [cluster EXCEPT !.svcs = Put(@, id, svc),
                                !.endpts = IF eps = <<>> THEN Drop(@, {id})
                                                         ELSE Put(@, id, eps)]
  /\ cluster' # cluster
  /\ vsQueue' = Enqueue(vsQueue, appInformers, <<[ns |-> id[1], svc |-> id[2]]>>)
  /\ UNCHANGED nsQueue
  /\ EnvFrame

NextMembers ==
  \/ \E namespace \in {"ns1"} : AddNamespace(namespace)
  \/ Run
  \/ \E id \in ChangingBackends :
       \E svc \in BackendServices(id), eps \in BackendEndpoints \cup {<<>>} :
         ChangeBackend(id, svc, eps)
  \/ \E nodes \in NodeLists : ChangeNodes(nodes)
  \/ \E sKey \in AllKeys : processNextVirtualServer(sKey, {})
  \/ \E err \in BOOLEAN : NodeUpdate(err)

SpecMembers == Init /\ [][NextMembers]_vars

(***************************************************************************)
(* The controller in a cluster whose ConfigMap is updated to a version     *)
(* that does not parse.                                                    *)
(***************************************************************************)
\* handleConfigMapParseFailure(appMgr, cm, cfg, err): cfg is what the parser
\* returned with its error.  The stored config is looked up under the first
\* pool of cfg; when it is there it is deleted, the status annotation is
\* taken off the ConfigMap and the ConfigMap is updated.
handleConfigMapParseFailure(w, cm, cfg) ==
  IF cfg = None THEN [w |-> w, deleted |-> FALSE]
  ELSE
    LET sKey   == IF Len(cfg.pools) = 0
                    THEN ServiceKey(cm.ns, "", 0)
                    ELSE ServiceKey(cm.ns, cfg.pools[1].svc, cfg.pools[1].port)
        rsName == formatConfigMapVSName(cm.ns, cm.name)
        id     == <<cm.ns, cm.name>>
    IN  IF RsHas(w.st, sKey, rsName)
          THEN [w |-> [w EXCEPT !.st = RsDelete(@, sKey, rsName),
                                !.cluster.cms = IF id \in DOMAIN @
                                                  THEN Put(@, id, [cm EXCEPT !.ipAnn = ""])
                                                  ELSE @],
                deleted |-> TRUE]
          ELSE [w |-> w, deleted |-> FALSE]

\* what the parser has built of a ConfigMap that is not valid, and the
\* backend the version names
PartialParses == {"none", "nopools", "pools"}

\* a valid ConfigMap is updated to a version that is not valid.  The update
\* handler of the ConfigMap informer (checkValidConfigMap) parses the new
\* version, hands the parser's error to handleConfigMapParseFailure and
\* queues no key
InvalidateConfigMap(id, partial, svc) ==
  /\ EnvReady
  /\ id \in DOMAIN cluster.cms
  /\ cluster.cms[id].valid
  /\ Watching(appInformers, id[1])
  /\ \E cm \in {[cluster.cms[id] EXCEPT !.valid = FALSE, !.partial = partial, !.svc = svc]} :
     \E p \in {parseConfigMap(cm)} :
     \E r \in {handleConfigMapParseFailure([Now(cluster) EXCEPT !.cluster.cms[id] = cm],
                                           cm, p.cfg)} :
       /\ cluster' = r.w.cluster
       /\ Commit(r.w)
       /\ vsQueue' = Enqueue(vsQueue, appInformers, CmKeys(cm))
       /\ last' = [Op("checkValidConfigMap", cm.ns, NoKey, "ok") EXCEPT
                     !.branch = IF r.deleted THEN "deleted" ELSE "kept", !.arg = id]
  /\ events' = events + 1
  /\ UNCHANGED <<appInformers, nsInformer, running, nsQueue, isNodePort, routeClientV1,
                 proc, panicked>>

NextConfigMaps ==
  \/ \E namespace \in {"ns1"} : AddNamespace(namespace)
  \/ Run
  \/ \E id \in ChangingConfigMaps, partial \in PartialParses, svc \in {"svcA", "svcB"} :
       InvalidateConfigMap(id, partial, svc)
  \/ \E id \in ChangingServices : ChangeService(id)
  \/ \E sKey \in AllKeys : processNextVirtualServer(sKey, {})

SpecConfigMaps == Init /\ [][NextConfigMaps]_vars

\* C29: when a valid ConfigMap is updated to a version that is not valid,
\* no config of the ConfigMap is left in the resource store, the ConfigMap
\* has no status annotation status.virtual-server.f5.com/ip, and the parse
\* failure adds no key to the queue.
C29_InvalidConfigMapRemoved ==
  [][last'.op = "checkValidConfigMap" =>
       LET id == last'.arg
       IN  /\ \A e \in DOMAIN resources' : e.name # formatConfigMapVSName(id[1], id[2])
           /\ cluster'.cms[id].ipAnn = ""
           /\ vsQueue' = vsQueue]_vars

(***************************************************************************)
(* The controller in a cluster whose multi-service Ingress loses the paths *)
(* of one of its Services.  The Ingress starts with two paths to svcB (on  *)
(* two ports) and one to svcA, in one of three orders.                     *)
(***************************************************************************)
PathA == [svc |-> "svcA", port |-> 80]

PathB == [svc |-> "svcB", port |-> 80]

PathB2 == [svc |-> "svcB", port |-> 8080]

InitialPaths == {<<PathA, PathB>>, <<PathB, PathA, PathB2>>, <<PathB, PathB2, PathA>>}

InitIngressUpdate ==
  /\ appInformers = <<>>
  /\ nsInformer = 0
  /\ running = FALSE
  /\ nsQueue = {}
  /\ vsQueue = {}
  /\ resources = <<>>
  /\ resAlias = {}
  /\ customProfiles = <<>>
  /\ irulesMap = {}
  /\ intDgMap = <<>>
  /\ initialState = FALSE
  /\ isNodePort \in BOOLEAN
  /\ routeClientV1 = FALSE
  /\ proc = NoProc
  /\ oldNodes = <<>>
  /\ cluster \in {[c EXCEPT !.ings = (<<"ns1", "ing1">> :> [Ing1 EXCEPT !.rules = paths])] :
                    c \in InitClusters, paths \in InitialPaths}
  /\ events = 0
  /\ panicked = FALSE
  /\ last = NoOp

\* the paths of the Ingress are replaced; the update handler queues the
\* keys of the backends the new version names
UpdateIngress(id, paths) ==
  /\ EnvReady
  /\ id \in DOMAIN cluster.ings
  /\ cluster.ings[id].rules # paths
  /\ cluster' = [cluster EXCEPT !.ings[id].rules = paths]
  /\ vsQueue' = Enqueue(vsQueue, appInformers, IngKeys(cluster'.ings[id]))
  /\ UNCHANGED nsQueue
  /\ EnvFrame

NextIngressUpdate ==
  \/ \E namespace \in {"ns1"} : AddNamespace(namespace)
  \/ Run
  \/ \E id \in ChangingIngresses : UpdateIngress(id, <<PathA>>)
  \/ \E id \in {<<"ns1", "svcB">>} : ChangeService(id)
  \/ \E sKey \in AllKeys : processNextVirtualServer(sKey, {})

SpecIngressUpdate == InitIngressUpdate /\ [][NextIngressUpdate]_vars

\* the names of the virtual servers of the Ingresses of the key's namespace
\* that have no path to the key's Service
NotOursNames(cl, key) ==
  {formatIngressVSName(cl.ings[id].ns, cl.ings[id].name, proto) :
     id \in {x \in DOMAIN cl.ings :
               /\ cl.ings[x].ns = key.ns
               /\ cl.ings[x].backend = None
               /\ \A i \in DOMAIN cl.ings[x].rules : cl.ings[x].rules[i].svc # key.svc},
     proto \in {"http", "https"}}

\* C30: when the candidate config has no pool for the synced service name,
\* handleConfigForType removes from every stored copy of the resource name
\* every pool with that service name and no other pool, also from a copy
\* with several pools of that service name, and counts nothing as found or
\* updated.
C30_NotOursPoolsRemoved ==
  [][(/\ last'.op = "syncVirtualServer"
      /\ last'.res = "ok"
      /\ last'.key.svc = "svcB"
      /\ Watching(appInformers, last'.key.ns)) =>
       \A e \in DOMAIN resources :
         e.name \in NotOursNames(cluster, last'.key) =>
           /\ last'.stats.vsFound = 0
           /\ last'.stats.vsUpdated = 0
           /\ e \in DOMAIN resources' =>
                resources'[e].pools =
                  SelectSeq(resources[e].pools, LAMBDA p : p.svc # last'.key.svc)]_vars

(***************************************************************************)
(* The helpers of the Ingress and profile handling, called one at a time.  *)
(* The Ingresses differ in their annotations, their TLS section and their  *)
(* bind address, the Secret of the TLS section in its data fields; the     *)
(* profile store is the one the earlier calls have left.                   *)
(***************************************************************************)
\* the values an annotation may carry; "" stands for an absent annotation
BoolAnnotations == {"", "true", "false", "yes"}

\* the http and the https port: the defaults, two other ports, and an http
\* port that is the https port
PortAnnotations == {<<"", "">>, <<"8080", "8443">>, <<"443", "">>}

AnnotationsOf(sr, ah, ports) ==
  LET set == {p \in {<<ingressSslRedirect, sr>>, <<ingressAllowHttp, ah>>,
                     <<httpPortAnnotation, ports[1]>>,
                     <<httpsPortAnnotation, ports[2]>>} : p[2] # ""}
  IN  [k \in {p[1] : p \in set} |-> (CHOOSE p \in set : p[1] = k)[2]]

CallAnnotations ==
  {AnnotationsOf(sr, ah, ports) : sr \in BoolAnnotations, ah \in {"", "true", "false"},
                                  ports \in PortAnnotations}

CallIngresses ==
  {[Ing1 EXCEPT !.ann = a, !.tls = t, !.bindAddr = b] :
     a \in CallAnnotations, t \in {<<>>, <<"sec3", "sec4">>}, b \in {"", "10.0.0.3"}}

\* Secrets with and without their data fields
CallSecrets ==
  {Secret(1), Secret(2), ("tls.crt" :> <<"crt", 1>>), ("tls.key" :> <<"key", 1>>), <<>>}

\* the Secret sec3 of the TLS section is missing, complete or without its
\* key; sec4 never exists
CallClusters ==
  {[EmptyCluster EXCEPT !.ings = IngTemplates]}
  \cup {[EmptyCluster EXCEPT !.ings = IngTemplates,
                             !.secrets = (<<"ns1", "sec3">> :> s)] :
          s \in {Secret(1), ("tls.crt" :> <<"crt", 1>>)}}

\* the HTTPS virtual server of Ing1, as createRSConfigFromIngress builds it
CallConfigs == {createRSConfigFromIngress(Ing1, portStruct("https", 443))}

InitCalls ==
  /\ appInformers = <<>>
  /\ nsInformer = 0
  /\ running = FALSE
  /\ nsQueue = {}
  /\ vsQueue = {}
  /\ resources = <<>>
  /\ resAlias = {}
  /\ customProfiles = <<>>
  /\ irulesMap = {}
  /\ intDgMap = <<>>
  /\ initialState = FALSE
  /\ isNodePort = FALSE
  /\ routeClientV1 = FALSE
  /\ proc = NoProc
  /\ oldNodes = <<>>
  /\ cluster \in CallClusters
  /\ events = 0
  /\ panicked = FALSE
  /\ last = NoOp

CallFrame ==
  UNCHANGED <<appInformers, nsInformer, running, nsQueue, vsQueue, resources, resAlias,
              intDgMap, initialState, isNodePort, routeClientV1, proc, oldNodes,
              cluster, events, panicked>>

Call(op, arg, out) == [NoOp EXCEPT !.op = op, !.arg = arg, !.out = out]

CallVirtualPorts(ing) ==
  /\ last' = Call("virtualPorts", ing, virtualPorts(ing))
  /\ UNCHANGED <<customProfiles, irulesMap>>
  /\ CallFrame

CallHandleSslProfile(rsCfg, secret) ==
  \E r \in {handleSslProfile(customProfiles, rsCfg, "sec3", secret, "ns1")} :
    /\ customProfiles' = r.profs
    /\ last' = Call("handleSslProfile",
                    [rsCfg |-> rsCfg, secret |-> secret,
                     skey |-> secretKey("sec3", "ns1", rsCfg.name)],
                    [err |-> r.err, updated |-> r.updated])
    /\ UNCHANGED irulesMap
    /\ CallFrame

\* handleIngressTls on the config createRSConfigFromIngress has built for
\* one of the Ingress's ports, as syncIngresses calls it
CallHandleIngressTls(ing, i) ==
  /\ i \in DOMAIN virtualPorts(ing)
  /\ \E rsCfg \in {createRSConfigFromIngress(ing, virtualPorts(ing)[i])} :
     \E r \in {handleIngressTls(Now(cluster), rsCfg, ing, {})} :
       /\ customProfiles' = r.w.profs
       /\ irulesMap' = r.w.irules
       /\ last' = Call("handleIngressTls", [ing |-> ing, rsCfg |-> rsCfg],
                       [cfg |-> r.cfg, updated |-> r.updated])
       /\ CallFrame

NextCalls ==
  \/ \E ing \in CallIngresses : CallVirtualPorts(ing)
  \/ \E rsCfg \in CallConfigs, secret \in CallSecrets : CallHandleSslProfile(rsCfg, secret)
  \/ \E ing \in CallIngresses, i \in 1..2 : CallHandleIngressTls(ing, i)

SpecCalls == InitCalls /\ [][NextCalls]_vars

(***************************************************************************)
(* The ports of an Ingress.                                                *)
(***************************************************************************)
\* what an annotation says: its value when it is there and reads as a
\* boolean, the default otherwise
AnnotationSays(ann, key, default) ==
  IF key \in DOMAIN ann /\ ann[key] \in {"true", "false"} THEN ann[key] = "true" ELSE default

PortSays(ann, key, default) ==
  IF key \notin DOMAIN ann THEN default
  ELSE IF ann[key] = "8080" THEN 8080
  ELSE IF ann[key] = "8443" THEN 8443
  ELSE IF ann[key] = "443" THEN 443
  ELSE 0

\* C23: virtualPorts returns <<http>> for an Ingress without a TLS section,
\* <<http, https>> in that order when there is a TLS section and
\* sslRedirect or allowHttp is true, and <<https>> when there is a TLS
\* section and both are false; sslRedirect is true, allowHttp false, the
\* http port 80 and the https port 443 when their annotations are absent.
C23_VirtualPorts ==
  last.op = "virtualPorts" =>
    LET ing   == last.arg
        sr    == AnnotationSays(ing.ann, ingressSslRedirect, TRUE)
        ah    == AnnotationSays(ing.ann, ingressAllowHttp, FALSE)
        http  == [protocol |-> "http", port |-> PortSays(ing.ann, httpPortAnnotation, 80)]
        https == [protocol |-> "https", port |-> PortSays(ing.ann, httpsPortAnnotation, 443)]
    IN  /\ ing.tls = <<>> => last.out = <<http>>
        /\ (ing.tls # <<>> /\ (sr \/ ah)) => last.out = <<http, https>>
        /\ (ing.tls # <<>> /\ ~sr /\ ~ah) => last.out = <<https>>

\* the three cases happen, the last with the ports at their defaults
C23_Witness ==
  /\ last.op = "virtualPorts"
  /\ last.arg.tls # <<>>
  /\ DOMAIN last.arg.ann = {ingressSslRedirect}
  /\ last.arg.ann[ingressSslRedirect] = "false"
  /\ last.out = <<[protocol |-> "https", port |-> 443]>>

(***************************************************************************)
(* The custom profile of a Secret.                                         *)
(***************************************************************************)
\* C24: handleSslProfile fails and leaves the profile store unchanged when
\* the Secret lacks tls.crt or tls.key; otherwise, for the key (secret
\* name, namespace, virtual server name), it inserts the profile and
\* returns not-updated when the store has no entry, overwrites the entry
\* and returns updated when the entry differs, and changes nothing and
\* returns not-updated when the entry is equal.
C24_HandleSslProfile ==
  [][last'.op = "handleSslProfile" =>
       LET secret == last'.arg.secret
           skey   == last'.arg.skey
           out    == last'.out
       IN  IF ~({"tls.crt", "tls.key"} \subseteq DOMAIN secret)
             THEN out.err /\ ~out.updated /\ customProfiles' = customProfiles
             ELSE
               LET cp == [name |-> skey.name, part |-> last'.arg.rsCfg.part,
                          ctx |-> "clientside", cert |-> secret["tls.crt"],
                          key |-> secret["tls.key"], serverName |-> ""]
               IN  /\ ~out.err
                   /\ skey \notin DOMAIN customProfiles =>
                        ~out.updated /\ customProfiles' = Put(customProfiles, skey, cp)
                   /\ (skey \in DOMAIN customProfiles /\ customProfiles[skey] # cp) =>
                        out.updated /\ customProfiles' = Put(customProfiles, skey, cp)
                   /\ (skey \in DOMAIN customProfiles /\ customProfiles[skey] = cp) =>
                        ~out.updated /\ customProfiles' = customProfiles]_vars

\* an entry that differed has been overwritten
C24_Witness ==
  /\ last.op = "handleSslProfile"
  /\ last.out.updated
  /\ last.arg.skey \in DOMAIN customProfiles
  /\ customProfiles[last.arg.skey].cert = last.arg.secret["tls.crt"]

(***************************************************************************)
(* The TLS section of an Ingress.                                          *)
(***************************************************************************)
\* the names of the redirect iRule: the canonical one and its per-port copies
RedirectIRules == {<<"http_redirect_irule", port>> : port \in {0, 80, 443, 8080, 8443}}

\* the client SSL profile of a TLS secret: a Secret the orchestrator does
\* not have is taken for a profile of the BIG-IP, a Secret with both fields
\* gives a profile in the config's partition, a Secret that lacks a field
\* gives none
TlsProfiles(ing, part) ==
  UNION {IF <<ing.ns, name>> \notin DOMAIN cluster.secrets
           THEN {[part |-> "", name |-> name, ctx |-> "clientside"]}
         ELSE IF {"tls.crt", "tls.key"} \subseteq DOMAIN cluster.secrets[<<ing.ns, name>>]
           THEN {[part |-> part, name |-> name, ctx |-> "clientside"]}
           ELSE {} : name \in Range(ing.tls)}

\* C25: for an Ingress with a TLS section and a bind address,
\* handleIngressTls attaches the redirect iRule to the config if and only
\* if the config's port is not the HTTPS port and sslRedirect is true, and
\* it attaches client SSL profiles only to the config whose port is the
\* HTTPS port: the profiles of the TLS secrets.  With the default
\* annotations the HTTP virtual carries the canonical redirect iRule and
\* the HTTPS virtual the profiles.
C25_HandleIngressTls ==
  (last.op = "handleIngressTls" /\ last.arg.ing.tls # <<>> /\ last.arg.ing.bindAddr # "") =>
    LET ing       == last.arg.ing
        rsCfg     == last.arg.rsCfg
        cfg       == last.out.cfg
        httpsPort == PortSays(ing.ann, httpsPortAnnotation, 443)
        sr        == AnnotationSays(ing.ann, ingressSslRedirect, TRUE)
        isHttps   == rsCfg.port = httpsPort
    IN  /\ (cfg.irules \cap RedirectIRules # {}) <=> (~isHttps /\ sr)
        /\ cfg.profiles # {} => isHttps
        /\ isHttps => cfg.profiles = TlsProfiles(ing, rsCfg.part)
        /\ ing.ann = <<>> =>
             /\ rsCfg.port \in {80, 443}
             /\ rsCfg.port = 80 =>
                  cfg.irules = {<<"http_redirect_irule", 0>>} /\ cfg.profiles = {}
             /\ rsCfg.port = 443 =>
                  cfg.irules = {} /\ cfg.profiles = TlsProfiles(ing, rsCfg.part)

\* the HTTPS virtual of an Ingress with the default annotations carries the
\* profile of the Secret of the TLS section
C25_Witness ==
  /\ last.op = "handleIngressTls"
  /\ last.arg.ing.ann = <<>>
  /\ last.arg.ing.bindAddr # ""
  /\ last.arg.rsCfg.port = 443
  /\ [part |-> "k8s", name |-> "sec3", ctx |-> "clientside"] \in last.out.cfg.profiles

(***************************************************************************)
(* Pool members.                                                           *)
(***************************************************************************)
\* the key of the last run of syncVirtualServer and its Service
SyncedId(op) == <<op.key.ns, op.key.svc>>

\* the run has gone through the configs of its key: it ended without an
\* error, the namespace is watched and the Service exists
SyncedService(op, inf, cl) ==
  /\ op.op = "syncVirtualServer"
  /\ op.res = "ok"
  /\ Watching(inf, op.key.ns)
  /\ SyncedId(op) \in DOMAIN cl.svcs

\* the entries of the store under the key's Service
EntriesOfKey(st, key) == {e \in DOMAIN st : e.key.ns = key.ns /\ e.key.svc = key.svc}

\* the pool of the Service in a config
PoolOfService(cfg, svcName) ==
  cfg.pools[CHOOSE i \in DOMAIN cfg.pools :
              /\ cfg.pools[i].svc = svcName
              /\ \A j \in 1..(i - 1) : cfg.pools[j].svc # svcName]

DeclaredPorts(svc, port) == {p \in Range(svc.ports) : p.port = port}

BackendEvent(reason, e) == [reason |-> reason, ns |-> e.name[2], name |-> e.name[3]]

EndpointPairs(eps, portNames) ==
  UNION {UNION {{[address |-> a, port |-> p.port] : a \in Range(s.addresses)}
                : p \in {q \in Range(s.ports) : q.name \in portNames}}
         : s \in Range(eps)}

StoredCopies(rsName) == Cardinality({e \in DOMAIN resources : e.name = rsName})

\* the stored configs of the multi-service Ingresses
MultiServiceEntries ==
  {e \in DOMAIN resources : e.name[1] = "ingress" /\ Len(resources[e].pools) > 1}

\* the run was for a key that only Ingresses name as a backend
IngressOnlySync ==
  /\ last.op = "syncVirtualServer"
  /\ last.res = "ok"
  /\ \A id \in DOMAIN cluster.cms :
       cluster.cms[id].ns # last.key.ns \/ cluster.cms[id].svc # last.key.svc

\* C28: while the number of stored copies of a multi-service Ingress's
\* resource name differs from its number of pools, a run of
\* syncVirtualServer counts no update of its config in vsUpdated and emits
\* nothing because of it; the run that stores the last copy counts the
\* update and emits the config.
C28_MultiServiceGuard ==
  IngressOnlySync =>
    /\ (/\ MultiServiceEntries # {}
        /\ \A e \in MultiServiceEntries : StoredCopies(e.name) # Len(resources[e].pools)) =>
         last.stats.vsUpdated = 0
    /\ (\E e \in MultiServiceEntries \cap last.saved :
          StoredCopies(e.name) = Len(resources[e].pools)) =>
         (last.stats.vsUpdated > 0 /\ last.emits > 0)

(***************************************************************************)
(* The locks of the Manager.  Every function is reduced to the sequence of *)
(* lock, unlock and blocking steps it takes, in program order; a branch of *)
(* the function is a parameter.  Lock() followed by defer Unlock() holds   *)
(* the lock to the end of the function; the deferred unlocks of one        *)
(* function run last-in, first-out.  The tasks of the process run these    *)
(* sequences one step at a time, and a Lock() step waits while another     *)
(* holder has the mutex: sync.Mutex is not reentrant.                      *)
(***************************************************************************)
Locks == <<"informers", "resources", "customProfiles", "irules", "intDg", "oldNodes">>

LockRank(l) == CHOOSE i \in DOMAIN Locks : Locks[i] = l

Ev(e, x) == [e |-> e, x |-> x]

\* x.Lock(); defer x.Unlock() around the rest of a function, or
\* x.Lock() ... x.Unlock() around a block
Locked(l, body) == <<Ev("lock", l)>> \o body \o <<Ev("unlock", l)>>

Opt(b, s) == IF b THEN s ELSE <<>>

Blocking(x) == <<Ev("block", x)>>

\* a call of Get, GetAllWithName or ForEach of the store, and a call of
\* Assign or Delete (a block that does both is one write); the methods of
\* the store take no lock themselves: they are called with the lock held
StoreRead == <<Ev("read", "store")>>

StoreWrite == <<Ev("write", "store")>>

addIRuleLocks == Locked("irules", <<>>)

addInternalDataGroupLocks == Locked("intDg", <<>>)

loadDefaultCertLocks(found) ==
  Locked("customProfiles", Opt(~found, Blocking("file")))

getNamespaceInformerLocks == Locked("informers", <<>>)

\* the emitter: outputConfig takes the resources lock, outputConfigLocked
\* is called with the lock held
outputConfigLocks == Locked("resources", StoreRead)

\* syncNamespace: the add branch starts the bundle and waits for its caches,
\* the delete branch cleans the store; with neither the namespace nor the
\* bundle the call panics and the deferred unlock runs
syncNamespaceLocks(exists, found) ==
  Locked("informers",
         IF exists /\ found THEN <<>>
         ELSE IF exists THEN Blocking("cacheSync")
         ELSE IF found THEN Locked("resources", StoreWrite)
         ELSE <<>>)

startAndSyncNamespaceInformerLocks == Locked("informers", Blocking("cacheSync"))

startAndSyncAppInformersLocks(bundles) ==
  Locked("informers", Opt(bundles, Blocking("cacheSync")))

stopAppInformersLocks == Locked("informers", <<>>)

\* runImpl: the registrations, the informers, the two workers, the wait for
\* the stop channel
runImplLocks(routes, nsInf, bundles) ==
  addIRuleLocks
  \o Opt(routes, addIRuleLocks \o addInternalDataGroupLocks \o addInternalDataGroupLocks)
  \o Opt(nsInf, startAndSyncNamespaceInformerLocks \o <<Ev("go", "ns")>>)
  \o startAndSyncAppInformersLocks(bundles)
  \o <<Ev("go", "vs"), Ev("stop", "")>>
  \o stopAppInformersLocks

getResourcesForKeyLocks == Locked("resources", StoreRead)

deactivateVirtualServerLocks == Locked("resources", StoreWrite)

saveVirtualServerLocks == Locked("resources", StoreWrite)

processAllMultiSvcLocks == Locked("resources", StoreRead)

deleteUnusedResourcesLocks == Locked("resources", StoreWrite)

deleteUnusedRoutesLocks == Locked("resources", StoreWrite)

\* deleteUnusedProfiles calls ForEach of the store with the profiles lock
\* only
deleteUnusedProfilesLocks == Locked("customProfiles", StoreRead)

handleSslProfileLocks(valid) == Opt(valid, Locked("customProfiles", <<>>))

\* recordIngressEvent, setIngressStatus, setBindAddrAnnotation and the
\* fetch of a Secret call the orchestrator
recordIngressEventLocks == Blocking("api")

setIngressStatusLocks(fails) == Blocking("api") \o Opt(fails, recordIngressEventLocks)

setBindAddrAnnotationLocks(doUpdate) == Opt(doUpdate, Blocking("api"))

\* handleConfigForType: branch "notOurs" (no pool of the service),
\* "noService" or "ok"
handleConfigForTypeLocks(c) ==
  IF c.branch = "notOurs" THEN Locked("resources", StoreWrite)
  ELSE Opt(c.portMissing, deactivateVirtualServerLocks)
       \o (IF c.branch = "noService"
             THEN deactivateVirtualServerLocks \o Opt(c.ingress, recordIngressEventLocks)
             ELSE saveVirtualServerLocks
                  \o Opt(c.ingress /\ c.backendError, recordIngressEventLocks))

\* syncConfigMaps, for one ConfigMap with a profile name
syncConfigMapsLocks(c) ==
  Blocking("api") \o Opt(c.secret, handleSslProfileLocks(c.valid))
  \o handleConfigForTypeLocks([c EXCEPT !.ingress = FALSE])
  \o Opt(c.branch = "ok", setBindAddrAnnotationLocks(c.annotate))

handleIngressTlsLocks(c) ==
  Blocking("api") \o Opt(c.secret, handleSslProfileLocks(c.valid))
  \o Opt(c.redirect, addIRuleLocks)

\* syncIngresses, for one port of one Ingress
syncIngressesLocks(c) ==
  handleIngressTlsLocks(c)
  \o Locked("resources", StoreWrite)
  \o handleConfigForTypeLocks([c EXCEPT !.ingress = TRUE])
  \o Opt(c.branch = "ok",
         processAllMultiSvcLocks \o Opt(c.annotate, recordIngressEventLocks)
         \o setIngressStatusLocks(c.backendError))

updateRouteDataGroupsLocks == Locked("intDg", <<>>)

setClientSslProfileLocks(cert) == Opt(cert, Locked("customProfiles", <<>>))

setServerSslProfileLocks(cert, found) ==
  IF cert THEN Locked("customProfiles", <<>>) ELSE loadDefaultCertLocks(found)

\* syncRoutes, for one port of one reencrypt Route; createRSConfigFromRoute
\* is handed *appMgr.resources and reads it
syncRoutesLocks(c) ==
  StoreRead
  \o handleConfigForTypeLocks([c EXCEPT !.ingress = FALSE])
  \o Opt(c.branch = "ok",
         Locked("resources", StoreWrite)
         \o setClientSslProfileLocks(c.secret)
         \o setServerSslProfileLocks(c.secret, c.valid))
  \o updateRouteDataGroupsLocks

\* syncVirtualServer, for a key whose namespace holds one resource of kind
\* c.kind
syncVirtualServerLocks(c) ==
  getNamespaceInformerLocks
  \o Opt(c.kind # "unwatched",
         getResourcesForKeyLocks
         \o Opt(c.kind = "cm", syncConfigMapsLocks(c))
         \o Opt(c.kind = "ing", syncIngressesLocks(c))
         \o Opt(c.kind = "route", syncRoutesLocks(c))
         \o Opt(c.unused, deleteUnusedResourcesLocks \o deleteUnusedRoutesLocks)
         \o deleteUnusedProfilesLocks
         \o (IF c.emit = "changed" THEN outputConfigLocks
             ELSE IF c.emit = "idle" THEN Locked("resources", <<>>)
             ELSE <<>>))

\* handleConfigMapParseFailure calls Get before it takes the lock
handleConfigMapParseFailureLocks(stored) ==
  StoreRead \o Opt(stored, Locked("resources", StoreWrite \o Blocking("api")))

ProcessNodeUpdateLocks_OldNodesFirst(err) ==
  Opt(~err, Locked("oldNodes", Locked("resources", StoreWrite)))

ProcessNodeUpdateLocks(err) ==
  Opt(~err, Locked("resources", Locked("oldNodes", StoreWrite)))

\* the syncs the virtual-server worker runs
SyncCase(kind, branch, flags, emit) ==
  [kind |-> kind, branch |-> branch, emit |-> emit,
   secret |-> "secret" \in flags, valid |-> "valid" \in flags,
   portMissing |-> "portMissing" \in flags, backendError |-> "backendError" \in flags,
   annotate |-> "annotate" \in flags, redirect |-> "redirect" \in flags,
   unused |-> "unused" \in flags, ingress |-> FALSE]

SyncCases ==
  { SyncCase("unwatched", "ok", {}, "none"),
    SyncCase("cm", "ok", {"secret", "valid", "annotate"}, "changed"),
    SyncCase("cm", "noService", {"portMissing", "unused"}, "idle"),
    SyncCase("ing", "ok", {"secret", "valid", "redirect", "annotate", "backendError"},
             "changed"),
    SyncCase("ing", "notOurs", {"secret"}, "none"),
    SyncCase("route", "ok", {}, "changed") }

Tasks == {"run", "ns", "vs", "nodes", "events"}

Idle == [todo |-> <<>>, held |-> <<>>, at |-> "", acc |-> ""]

NoLocks == [tasks |-> [t \in Tasks |-> Idle], up |-> {}]

InitLocks ==
  /\ appInformers = <<>>
  /\ nsInformer = 1
  /\ running = FALSE
  /\ nsQueue = {}
  /\ vsQueue = {}
  /\ resources = <<>>
  /\ resAlias = {}
  /\ customProfiles = <<>>
  /\ irulesMap = {}
  /\ intDgMap = <<>>
  /\ initialState = FALSE
  /\ isNodePort = FALSE
  /\ routeClientV1 \in BOOLEAN
  /\ proc = NoLocks
  /\ oldNodes = <<>>
  /\ cluster = The(InitClusters)
  /\ events = 0
  /\ panicked = FALSE
  /\ last = NoOp

LocksFrame ==
  UNCHANGED <<appInformers, nsInformer, running, nsQueue, vsQueue, resources, resAlias,
              customProfiles, irulesMap, intDgMap, initialState, isNodePort,
              routeClientV1, oldNodes, cluster, events, panicked, last>>

Holder(l) == {t \in Tasks : l \in Range(proc.tasks[t].held)}

\* a task starts a function: the steps of the function are what it has to do
Begin(t, steps) ==
  /\ proc.tasks[t].todo = <<>>
  /\ steps # <<>>
  /\ proc' = [proc EXCEPT !.tasks[t].todo = steps, !.tasks[t].at = "",
                          !.tasks[t].acc = "", !.up = @ \cup {t}]
  /\ LocksFrame

BeginRunImpl ==
  /\ "run" \notin proc.up
  /\ Begin("run", runImplLocks(routeClientV1, nsInformer # 0, TRUE))

BeginSyncNamespace(exists, found) ==
  /\ "ns" \in proc.up
  /\ Begin("ns", syncNamespaceLocks(exists, found))

BeginSyncVirtualServer(c) ==
  /\ "vs" \in proc.up
  /\ Begin("vs", syncVirtualServerLocks(c))

\* the node poller calls ProcessNodeUpdate when its last call has returned
BeginProcessNodeUpdate(err) ==
  /\ proc.tasks["nodes"].held = <<>>
  /\ Begin("nodes", ProcessNodeUpdateLocks(err))

\* a ConfigMap event whose ConfigMap does not parse
BeginEnqueueConfigMap(stored) ==
  /\ "run" \in proc.up
  /\ Begin("events", handleConfigMapParseFailureLocks(stored))

\* x.Lock(): waits until no task holds x
Acquire(t) ==
  /\ proc.tasks[t].todo # <<>>
  /\ \E ev \in {Head(proc.tasks[t].todo)} :
       /\ ev.e = "lock"
       /\ Holder(ev.x) = {}
       /\ proc' = [proc EXCEPT !.tasks[t].todo = Tail(@),
                               !.tasks[t].held = Append(@, ev.x),
                               !.tasks[t].at = "", !.tasks[t].acc = ""]
  /\ LocksFrame

\* x.Unlock()
Release(t) ==
  /\ proc.tasks[t].todo # <<>>
  /\ \E ev \in {Head(proc.tasks[t].todo)} :
       /\ ev.e = "unlock"
       /\ proc' = [proc EXCEPT !.tasks[t].todo = Tail(@),
                               !.tasks[t].held = SelectSeq(@, LAMBDA l : l # ev.x),
                               !.tasks[t].at = "", !.tasks[t].acc = ""]
  /\ LocksFrame

\* the task is in a blocking operation: a call of the orchestrator, the
\* wait for the caches, the read of the CA file
BlockingCall(t) ==
  /\ proc.tasks[t].todo # <<>>
  /\ \E ev \in {Head(proc.tasks[t].todo)} :
       /\ ev.e = "block"
       /\ proc' = [proc EXCEPT !.tasks[t].todo = Tail(@), !.tasks[t].at = ev.x,
                               !.tasks[t].acc = ""]
  /\ LocksFrame

\* the task is in a method of the store
Access(t) ==
  /\ proc.tasks[t].todo # <<>>
  /\ \E ev \in {Head(proc.tasks[t].todo)} :
       /\ ev.e \in {"read", "write"}
       /\ proc' = [proc EXCEPT !.tasks[t].todo = Tail(@), !.tasks[t].at = "",
                               !.tasks[t].acc = ev.e]
  /\ LocksFrame

\* go wait.Until(worker, ...) and <-stopCh in runImpl
Go(t) ==
  /\ proc.tasks[t].todo # <<>>
  /\ \E ev \in {Head(proc.tasks[t].todo)} :
       /\ ev.e \in {"go", "stop"}
       /\ proc' = [proc EXCEPT !.tasks[t].todo = Tail(@), !.tasks[t].at = "",
                               !.tasks[t].acc = "",
                               !.up = IF ev.e = "go" THEN @ \cup {ev.x} ELSE @]
  /\ LocksFrame

NextLocks ==
  \/ BeginRunImpl
  \/ \E exists \in BOOLEAN, found \in BOOLEAN : BeginSyncNamespace(exists, found)
  \/ \E c \in SyncCases : BeginSyncVirtualServer(c)
  \/ \E err \in BOOLEAN : BeginProcessNodeUpdate(err)
  \/ \E stored \in BOOLEAN : BeginEnqueueConfigMap(stored)
  \/ \E t \in Tasks : Acquire(t)
  \/ \E t \in Tasks : Release(t)
  \/ \E t \in Tasks : BlockingCall(t)
  \/ \E t \in Tasks : Access(t)
  \/ \E t \in Tasks : Go(t)

SpecLocks == InitLocks /\ [][NextLocks]_vars

\* a task waits for a lock another task (or itself) holds
WaitsFor(t) ==
  IF proc.tasks[t].todo # <<>> /\ Head(proc.tasks[t].todo).e = "lock"
    THEN Holder(Head(proc.tasks[t].todo).x)
    ELSE {}

\* C21: the locks a task holds were acquired in the order informers,
\* resources, customProfiles, irules, intDg, oldNodes (no task acquires a
\* lock that comes earlier in this order than one it holds), and no set of
\* tasks is deadlocked on the locks: there is never a group of tasks each
\* waiting for a lock that a task of the group holds.
C21_LockOrder ==
  /\ \A t \in Tasks :
       \A i, j \in DOMAIN proc.tasks[t].held :
         i < j => LockRank(proc.tasks[t].held[i]) < LockRank(proc.tasks[t].held[j])
  /\ \A S \in SUBSET Tasks \ {{}} :
       \E t \in S : WaitsFor(t) \cap S = {}

\* the node poller holds resources and oldNodes while the virtual-server
\* worker waits for resources and the namespace worker holds informers
C21_Witness ==
  /\ proc.tasks["nodes"].held = <<"resources", "oldNodes">>
  /\ WaitsFor("vs") = {"nodes"}
  /\ proc.tasks["ns"].held = <<"informers">>
  /\ WaitsFor("ns") = {"nodes"}

\* C37: a task that is in a method of the resource store holds the
\* resources lock, so no task reads the store while another task writes it.
C37_StoreAccessLocked ==
  \A t \in Tasks :
    proc.tasks[t].acc # "" => "resources" \in Range(proc.tasks[t].held)

\* C22: a task that is in a blocking operation (orchestrator call, wait for
\* the caches, read of the CA file) holds no lock.
C22_NoLockWhileBlocking ==
  \A t \in Tasks : proc.tasks[t].at # "" => proc.tasks[t].held = <<>>

(***************************************************************************)
(* The entries of the store and the objects they come from.                *)
(***************************************************************************)
\* the configs the ConfigMaps and the Ingresses of the key's namespace
\* yield: what the sub-syncs hand to handleConfigForType
SourceConfigs(cl, key) ==
  {ConfigOfConfigMap(cl.cms[id]) :
     id \in {x \in DOMAIN cl.cms : cl.cms[x].ns = key.ns /\ cl.cms[x].valid}}
  \cup {createRSConfigFromIngress(cl.ings[id], ps) :
          id \in {x \in DOMAIN cl.ings : cl.ings[x].ns = key.ns /\ cl.ings[x].classOk},
          ps \in UNION {Range(virtualPorts(cl.ings[x])) : x \in DOMAIN cl.ings}}

\* the entries of the key that a source object still asks for: the name of
\* its config, under the port of its pool of the key's Service
SourceEntries(cl, key) ==
  {Entry(ServiceKey(key.ns, key.svc, PoolOfService(cfg, key.svc).port), cfg.name) :
     cfg \in {c \in SourceConfigs(cl, key) :
                \E i \in DOMAIN c.pools : c.pools[i].svc = key.svc}}

\* C31: handleConfigForType removes from rsMap[port] only the entry of the
\* resource name being processed, so an entry of another resource name
\* bound to the same port stays in rsMap and is deleted as stale at the end
\* of the sync: after a sync that ended without an error, no entry of the
\* key stored before the sync is left whose name is not the name of a
\* config that an object of the namespace yields for that port.
C31_OnlyOwnEntryConsumed ==
  [][(/\ last'.op = "syncVirtualServer" /\ last'.res = "ok"
      /\ Watching(appInformers, last'.key.ns)) =>
       \A e \in EntriesOfKey(resources, last'.key) :
         e \notin SourceEntries(cluster, last'.key) => e \notin DOMAIN resources']_vars

(***************************************************************************)
(* handleConfigForType called on its own: the config of a ConfigMap or of  *)
(* an Ingress port, a queue key, and the Service as syncVirtualServer has  *)
(* looked it up (None when it is not in the cache); rsMap is what          *)
(* getResourcesForKey returns for the key.  The store keeps what the calls *)
(* leave in it.                                                            *)
(***************************************************************************)
HandleConfigs ==
  {ConfigOfConfigMap(Cm1), createRSConfigFromIngress(Ing1, portStruct("http", 80))}

HandleKeys == {[ns |-> "ns1", svc |-> "svcA"], [ns |-> "ns1", svc |-> "svcB"]}

HandleServices(sKey) == {None} \cup BackendServices(<<sKey.ns, sKey.svc>>)

InitHandle ==
  /\ appInformers = <<>>
  /\ nsInformer = 0
  /\ running = FALSE
  /\ nsQueue = {}
  /\ vsQueue = {}
  /\ resources = <<>>
  /\ resAlias = {}
  /\ customProfiles = <<>>
  /\ irulesMap = {}
  /\ intDgMap = <<>>
  /\ initialState = FALSE
  /\ isNodePort \in BOOLEAN
  /\ routeClientV1 = FALSE
  /\ proc = NoProc
  /\ oldNodes = <<1>>
  /\ cluster = The(InitClusters)
  /\ events = 0
  /\ panicked = FALSE
  /\ last = NoOp

CallHandleConfigForType(rsCfg, sKey, svc) ==
  \E w \in {[Now(cluster) EXCEPT !.rsMap = getResourcesForKey(Store, sKey)]} :
  \E r \in {handleConfigForType(w, rsCfg, sKey, rsCfg.name, SvcPorts(svc), svc,
                                isNodePort, "")} :
    /\ Commit(r.w)
    /\ last' = Call("handleConfigForType",
                    [rsCfg |-> rsCfg, sKey |-> sKey, svc |-> svc, rsMap |-> w.rsMap,
                     stored |-> resources],
                    [ok |-> r.ok, found |-> r.found, updated |-> r.updated,
                     rsMap |-> r.w.rsMap])
    /\ UNCHANGED <<appInformers, nsInformer, running, nsQueue, vsQueue, isNodePort,
                   routeClientV1, proc, cluster, events, panicked>>

\* a stored config is removed, as deleteUnusedResources removes it
CallDelete(e) ==
  /\ e \in DOMAIN resources
  /\ \E st \in {RsDelete(Store, e.key, e.name)} :
       /\ resources' = st.rm
       /\ resAlias' = st.al
  /\ last' = Call("Delete", e, <<>>)
  /\ UNCHANGED <<appInformers, nsInformer, running, nsQueue, vsQueue, customProfiles,
                 irulesMap, intDgMap, initialState, isNodePort, routeClientV1, proc,
                 oldNodes, cluster, events, panicked>>

NextHandle ==
  \/ \E rsCfg \in HandleConfigs, sKey \in HandleKeys :
       \E svc \in HandleServices(sKey) : CallHandleConfigForType(rsCfg, sKey, svc)
  \/ \E sKey \in HandleKeys, rsCfg \in HandleConfigs :
       CallDelete(Entry(ServiceKey(sKey.ns, sKey.svc, 80), rsCfg.name))

SpecHandle == InitHandle /\ [][NextHandle]_vars

\* the call had a pool of the key's Service, and the Service is absent or
\* does not declare the pool's port
DeactivatingCall(op) ==
  /\ op.op = "handleConfigForType"
  /\ \E i \in DOMAIN op.arg.rsCfg.pools : op.arg.rsCfg.pools[i].svc = op.arg.sKey.svc
  /\ PoolOfService(op.arg.rsCfg, op.arg.sKey.svc).port \notin SvcPorts(op.arg.svc)

HandledEntry(op) ==
  Entry(ServiceKey(op.arg.sKey.ns, op.arg.sKey.svc,
                   PoolOfService(op.arg.rsCfg, op.arg.sKey.svc).port),
        op.arg.rsCfg.name)

\* C32: when the Service is absent or does not declare the pool's port,
\* handleConfigForType leaves the config stored with active = false and no
\* members in the pool of the Service, writes the store only if the config
\* differs from the stored copy, counts at most one update, and returns
\* true (the config is ours) with found = 1.
C32_DeactivatedIsOurs ==
  DeactivatingCall(last) =>
    LET e == HandledEntry(last)
    IN  /\ e \in DOMAIN resources
        /\ ~resources[e].active
        /\ PoolOfService(resources[e], last.arg.sKey.svc).members = <<>>
        /\ last.out.updated <= 1
        /\ last.out.updated = 1 <=>
             (e \notin DOMAIN last.arg.stored \/ last.arg.stored[e] # resources[e])
        /\ last.out.ok
        /\ last.out.found = 1

\* C33: after a syncVirtualServer(sKey) that ended without an error, the
\* store holds no entry under sKey's namespace and service name whose
\* source object is gone from the cache or no longer references that port;
\* every such entry is deleted during the sync and counted in vsDeleted,
\* and no entry under another (namespace, serviceName) is deleted.
C33_StaleEntriesDeleted ==
  [][(/\ last'.op = "syncVirtualServer" /\ last'.res = "ok"
      /\ Watching(appInformers, last'.key.ns)) =>
       /\ EntriesOfKey(resources', last'.key) \subseteq SourceEntries(cluster, last'.key)
       /\ last'.stats.vsDeleted =
            Cardinality(EntriesOfKey(resources, last'.key) \ DOMAIN resources')
       /\ \A e \in DOMAIN resources \ EntriesOfKey(resources, last'.key) :
            e \in DOMAIN resources']_vars

\* C34: the sub-syncs add the found and updated counters of
\* handleConfigForType to the stats only when it returned true.  In a sync
\* of a key whose Service is not in the cache every call returns false (no
\* pool of the service, or the Service is gone), so vsFound and vsUpdated
\* of the run stay 0.
C34_StatsOnlyWhenOurs ==
  [][(/\ last'.op = "syncVirtualServer" /\ last'.res = "ok"
      /\ Watching(appInformers, last'.key.ns)
      /\ SyncedId(last') \notin DOMAIN cluster.svcs) =>
       /\ last'.stats.vsFound = 0
       /\ last'.stats.vsUpdated = 0]_vars

(***************************************************************************)
(* handleIngressTls on the HTTPS virtual server of an Ingress with two TLS *)
(* entries, while the Secrets of the entries are replaced, lose a field or *)
(* are deleted.                                                            *)
(***************************************************************************)
TlsSections == {<<"sec3", "sec4">>, <<"sec4", "sec3">>}

\* a Secret with its two fields (two versions), one without its key, none
TlsSecrets == {Secret(1), Secret(2), ("tls.crt" :> <<"crt", 1>>), None}

InitTls ==
  /\ appInformers = <<>>
  /\ nsInformer = 0
  /\ running = FALSE
  /\ nsQueue = {}
  /\ vsQueue = {}
  /\ resources = <<>>
  /\ resAlias = {}
  /\ customProfiles = <<>>
  /\ irulesMap = {}
  /\ intDgMap = <<>>
  /\ initialState = FALSE
  /\ isNodePort = FALSE
  /\ routeClientV1 = FALSE
  /\ proc = NoProc
  /\ oldNodes = <<>>
  /\ cluster = [EmptyCluster EXCEPT !.ings = IngTemplates,
                                    !.secrets = (<<"ns1", "sec3">> :> Secret(1))
                                                @@ (<<"ns1", "sec4">> :> Secret(1))]
  /\ events = 0
  /\ panicked = FALSE
  /\ last = NoOp

\* a Secret of the namespace is created, replaced or deleted
SetSecret(name, s) ==
  /\ cluster' = [cluster EXCEPT !.secrets =
                   IF s = None THEN Drop(@, {<<"ns1", name>>})
                   ELSE Put(@, <<"ns1", name>>, s)]
  /\ cluster' # cluster
  /\ last' = Call("SetSecret", <<name, s>>, <<>>)
  /\ UNCHANGED <<appInformers, nsInformer, running, nsQueue, vsQueue, resources, resAlias,
                 customProfiles, irulesMap, intDgMap, initialState, isNodePort,
                 routeClientV1, proc, oldNodes, events, panicked>>

\* syncIngresses calls handleIngressTls for the HTTPS port of the Ingress
CallIngressTls(tls) ==
  \E ing \in {[Ing1 EXCEPT !.tls = tls]} :
  \E rsCfg \in {createRSConfigFromIngress(ing, portStruct("https", 443))} :
  \E r \in {handleIngressTls(Now(cluster), rsCfg, ing, {})} :
    /\ customProfiles' = r.w.profs
    /\ irulesMap' = r.w.irules
    /\ last' = Call("handleIngressTls", [ing |-> ing, rsCfg |-> rsCfg],
                    [cfg |-> r.cfg, updated |-> r.updated])
    /\ CallFrame

NextTls ==
  \/ \E name \in {"sec3", "sec4"}, s \in TlsSecrets : SetSecret(name, s)
  \/ \E tls \in TlsSections : CallIngressTls(tls)

SpecTls == InitTls /\ [][NextTls]_vars

\* C35: for the HTTPS virtual server of an Ingress with several TLS
\* entries, handleIngressTls returns true if and only if the Secret of at
\* least one entry caused a custom profile to be updated (a stored profile
\* was overwritten with a different one), whatever the order of the entries
\* and whether or not a later Secret is missing or invalid.
C35_TlsUpdatedIffSomeProfile ==
  [][last'.op = "handleIngressTls" =>
       (last'.out.updated <=>
          \E k \in DOMAIN customProfiles : customProfiles'[k] # customProfiles[k])]_vars

\* C36: AddNamespace of a namespace that is already watched, the
\* all-namespaces entry "" included, returns success and leaves the
\* informer map unchanged.
C36_AddNamespaceIdempotent ==
  [][(last'.op = "AddNamespace" /\ last'.ns \in DOMAIN appInformers) =>
       (last'.res = "ok" /\ appInformers' = appInformers)]_vars


(***************************************************************************)
(* The virtual-server sync taken in two parts, with the node poller free    *)
(* to run between them.  syncVirtualServer holds the resources lock only   *)
(* inside the functions it calls: between the return of its sub-syncs and  *)
(* its call of deleteUnusedResources no lock is held, and ProcessNodeUpdate*)
(* may take the resources lock there.                                      *)
(***************************************************************************)
\* syncVirtualServer from getResourcesForKey to the return of the last
\* sub-sync
SubSyncs(w0, sKey, nodePortMode, cmOrder, ingOrder, fail) ==
  LET id    == <<sKey.ns, sKey.svc>>
      svc   == IF id \in DOMAIN w0.cache.svcs THEN w0.cache.svcs[id] ELSE None
      ports == SvcPorts(svc)
      w1    == [w0 EXCEPT !.rsMap = getResourcesForKey(w0.st, sKey)]
  IN
  The({
    IF c.err THEN c
    ELSE The({ IF g.err \/ ~g.w.routeClient THEN g
               ELSE [err |-> FALSE,
                     w |-> syncRoutes(g.w, sKey, ports, svc, nodePortMode)]
               : g \in {syncIngresses(c.w, sKey, ports, svc, nodePortMode,
                                      ingOrder, fail)} })
    : c \in {syncConfigMaps(w1, sKey, ports, svc, nodePortMode, cmOrder, fail)} })

\* syncVirtualServer from deleteUnusedResources to its return
SyncTail(w, sKey, qe) ==
  The({ The({
    [res |-> "ok",
     w |-> IF EmitDecision(w2.stats, qe, w2.initialState)
             THEN outputConfigLocked(w2)
             ELSE w2,
     atEnd |-> TRUE, queuesEmpty |-> qe]
    : w2 \in {[w EXCEPT !.st = d.st, !.stats.vsDeleted = d.rsDeleted,
                 !.profs = deleteUnusedProfiles(d.st, w.profs, sKey.ns)]} })
    : d \in {IF DOMAIN w.rsMap # {}
               THEN The({ [st |-> deleteUnusedRoutes(du.st, w.forEach),
                           rsDeleted |-> du.rsDeleted]
                          : du \in {deleteUnusedResources(w.st, sKey, w.rsMap)} })
               ELSE [st |-> w.st, rsDeleted |-> 0]} })

\* proc.sync holds the run of syncVirtualServer that is between its two
\* parts: its key and its locals (rsMap, stats, the keys to enqueue)
NoSync == [sync |-> <<>>]

InitPools ==
  /\ appInformers = <<>>
  /\ nsInformer = 0
  /\ running = FALSE
  /\ nsQueue = {}
  /\ vsQueue = {}
  /\ resources = <<>>
  /\ resAlias = {}
  /\ customProfiles = <<>>
  /\ irulesMap = {}
  /\ intDgMap = <<>>
  /\ initialState = FALSE
  /\ isNodePort = TRUE
  /\ routeClientV1 = FALSE
  /\ proc = NoSync
  /\ oldNodes = <<>>
  /\ cluster \in {[c EXCEPT !.ings = (<<"ns1", "ing1">> :> [Ing1 EXCEPT !.rules = paths])] :
                    c \in InitClusters, paths \in {<<PathB>>, <<PathA, PathB>>}}
  /\ events = 0
  /\ panicked = FALSE
  /\ last = NoOp

\* the virtual-server worker takes a key and runs syncVirtualServer up to
\* the return of the sub-syncs; an error ends the run and re-queues the key
SyncBegin(sKey) ==
  /\ running /\ ~panicked
  /\ sKey \in vsQueue
  /\ proc.sync = <<>>
  /\ Watching(appInformers, sKey.ns)
  /\ \E cmOrder \in Orderings(InNamespace(cluster.cms, sKey.ns)),
        ingOrder \in Orderings(InNamespace(cluster.ings, sKey.ns)) :
     \E i \in {SubSyncs(Now(cluster), sKey, isNodePort, cmOrder, ingOrder, {})} :
       /\ Commit(i.w)
       /\ proc' = IF i.err THEN proc ELSE [sync |-> <<[sKey |-> sKey, w |-> i.w]>>]
       /\ last' = [Op("syncVirtualServer", sKey.ns, sKey, IF i.err THEN "err" ELSE "ok")
                     EXCEPT !.branch = "subSyncs", !.stats = i.w.stats]
  /\ UNCHANGED <<appInformers, nsInformer, running, nsQueue, vsQueue, isNodePort,
                 routeClientV1, cluster, events, panicked>>

\* the run goes on with the store as it is now: deleteUnusedResources,
\* deleteUnusedRoutes, deleteUnusedProfiles and the emission
SyncEnd ==
  /\ running /\ ~panicked
  /\ proc.sync # <<>>
  /\ \E s \in {proc.sync[1]} :
     \E w \in {[s.w EXCEPT !.st = Store, !.initialState = initialState,
                           !.oldNodes = oldNodes]} :
     \E r \in {SyncTail(w, s.sKey, vsQueue \ {s.sKey} = {} /\ nsQueue = {})} :
       /\ Commit(r.w)
       /\ vsQueue' = QueueAddAll(vsQueue \ {s.sKey}, r.w.enq)
       /\ last' = [Op("syncVirtualServer", s.sKey.ns, s.sKey, r.res) EXCEPT
                     !.emits = r.w.emits, !.stats = r.w.stats,
                     !.queuesEmpty = r.queuesEmpty, !.initialBefore = initialState,
                     !.atEnd = r.atEnd, !.saved = r.w.saved]
  /\ proc' = NoSync
  /\ UNCHANGED <<appInformers, nsInformer, running, nsQueue, isNodePort,
                 routeClientV1, cluster, events, panicked>>

NextPools ==
  \/ \E namespace \in {"ns1"} : AddNamespace(namespace)
  \/ Run
  \/ \E id \in ChangingIngresses : UpdateIngress(id, <<PathA>>)
  \/ \E id \in {<<"ns1", "svcB">>} : ChangeService(id)
  \/ \E nodes \in NodeLists : ChangeNodes(nodes)
  \/ \E sKey \in AllKeys : SyncBegin(sKey)
  \/ SyncEnd
  \/ \E err \in BOOLEAN : NodeUpdate(err)

SpecPools == InitPools /\ [][NextPools]_vars

\* C38: ProcessNodeUpdate finds a pool in every config of the store: its
\* write to Pools[0] is in range whenever it has the resources lock, also
\* when it takes the lock between two steps of a virtual-server sync.
C38_PoolZeroInRange ==
  last.op = "ProcessNodeUpdate" => last.res # "panic"


(***************************************************************************)
(* The stop channels of the informer bundles.                              *)
(***************************************************************************)
\* syncNamespace(nsName) reaches appInf.stopInformers() for a bundle whose
\* stop channel has been closed before
ClosesClosedChannel(inf, cl, nsName) ==
  /\ nsName \notin cl.labeled
  /\ getNamespaceInformerLocked(inf, nsName).found
  /\ inf[getNamespaceInformerLocked(inf, nsName).name].stopCh = "closed"

\* the namespace worker runs syncNamespace, and the lookup in the namespace
\* informer succeeds
NamespaceSyncStep ==
  proc.w.ns.pc = "sync" /\ proc'.w.ns.pc # "sync" /\ events' = events

\* C39: the stop channel of an informer bundle is closed at most once: no
\* run of syncNamespace that de-watches a namespace closes a channel that
\* stopAppInformers (or an earlier run) has closed.
C39_StopClosedOnce ==
  [][NamespaceSyncStep =>
       ~ClosesClosedChannel(appInformers, cluster, proc.w.ns.key)]_vars


(***************************************************************************)
(* The emission of what a sync has stored.                                 *)
(***************************************************************************)
\* the virtual-server worker runs while its queue holds a key (wait.Until
\* calls it again after a second); an error of the orchestrator need not
\* happen again
VirtualServerWorkerRuns == \E sKey \in AllKeys : processNextVirtualServer(sKey, {})

\* the controller in a cluster whose ConfigMap cm1 may not have been
\* created yet
InitEmit ==
  /\ appInformers = <<>>
  /\ nsInformer = 0
  /\ running = FALSE
  /\ nsQueue = {}
  /\ vsQueue = {}
  /\ resources = <<>>
  /\ resAlias = {}
  /\ customProfiles = <<>>
  /\ irulesMap = {}
  /\ intDgMap = <<>>
  /\ initialState = FALSE
  /\ isNodePort = FALSE
  /\ routeClientV1 = FALSE
  /\ proc = NoProc
  /\ oldNodes = <<>>
  /\ cluster \in InitClusters \cup {[c EXCEPT !.cms = Drop(@, ChangingConfigMaps)] :
                                      c \in InitClusters}
  /\ events = 0
  /\ panicked = FALSE
  /\ last = NoOp

\* ns1 is watched, its ConfigMap comes and goes, and the Ingress index of
\* the orchestrator may fail
NextEmit ==
  \/ \E namespace \in {"ns1"} : AddNamespace(namespace)
  \/ Run
  \/ \E id \in ChangingConfigMaps : ChangeConfigMap(id)
  \/ \E sKey \in AllKeys, fail \in {{}, {"ingIndex"}} : processNextVirtualServer(sKey, fail)

SpecEmit == InitEmit /\ [][NextEmit]_vars

SpecEmitFair == SpecEmit /\ WF_vars(VirtualServerWorkerRuns)

\* a run of syncVirtualServer has written a config to the store and has
\* emitted nothing
StoredNotEmitted ==
  last.op = "syncVirtualServer" /\ last.saved # {} /\ last.emits = 0

\* C40: a config that a run of syncVirtualServer has written to the store
\* is eventually followed by an emission of the configuration, also when
\* the run ended with an error of a later sub-sync and its key is retried.
C40_StoredThenEmitted ==
  StoredNotEmitted ~> (last.emits > 0)

====
